---- MODULE Spec2Model ----
(***************************************************************************)
(* LaochenDNS desktop back end (desktop/src-tauri/src): the tauri commands *)
(* of commands.rs over the eight provider clients of providers/*.rs.       *)
(*                                                                         *)
(* Text is modelled as a sequence of one-character strings, so that trim,  *)
(* split, starts_with, contains and to_lowercase are computed as the code  *)
(* computes them.  A character outside ASCII is written as the token of    *)
(* its code point ("U534E").  Option<T> is a sequence of length 0 or 1.    *)
(***************************************************************************)
EXTENDS Integers, Sequences, FiniteSets

VARIABLES
    vault,      \* the vault file: None, or Some of its key and its PlainVault
    pc,         \* "idle": no command in flight; "returned": a command has answered
    last        \* the command that answered: its arguments, requests sent, result

vars == <<vault, pc, last>>

---------------------------------------------------------------------------
(* Option<T> *)

None == <<>>
Some(x) == <<x>>
IsSome(o) == Len(o) = 1
IsNone(o) == Len(o) = 0

---------------------------------------------------------------------------
(* str methods used by the code *)

IsWhite(c) == c = " "

RECURSIVE TrimStart(_)
TrimStart(s) ==
    IF s # <<>> /\ IsWhite(Head(s)) THEN TrimStart(Tail(s)) ELSE s

RECURSIVE TrimEnd(_)
TrimEnd(s) ==
    IF s # <<>> /\ IsWhite(s[Len(s)]) THEN TrimEnd(SubSeq(s, 1, Len(s) - 1)) ELSE s

Trim(s) == TrimEnd(TrimStart(s))

RECURSIVE Split(_, _)
Split(s, sep) ==
    IF \E i \in 1..Len(s) : s[i] = sep
    THEN LET i == CHOOSE k \in 1..Len(s) :
                      s[k] = sep /\ \A j \in 1..(k - 1) : s[j] # sep
         IN  <<SubSeq(s, 1, i - 1)>> \o Split(SubSeq(s, i + 1, Len(s)), sep)
    ELSE <<s>>

StartsWith(s, p) == Len(p) <= Len(s) /\ SubSeq(s, 1, Len(p)) = p

EndsWith(s, p) == Len(p) <= Len(s) /\ SubSeq(s, Len(s) - Len(p) + 1, Len(s)) = p

Contains(s, p) ==
    \E i \in 0..(Len(s) - Len(p)) : SubSeq(s, i + 1, i + Len(p)) = p

UpperCase == <<"A", "B", "C", "D", "E", "F", "G", "H", "I", "J", "K", "L", "M",
               "N", "O", "P", "Q", "R", "S", "T", "U", "V", "W", "X", "Y", "Z">>
LowerCase == <<"a", "b", "c", "d", "e", "f", "g", "h", "i", "j", "k", "l", "m",
               "n", "o", "p", "q", "r", "s", "t", "u", "v", "w", "x", "y", "z">>

ToLowerChar(c) ==
    IF \E i \in 1..Len(UpperCase) : UpperCase[i] = c
    THEN LowerCase[CHOOSE i \in 1..Len(UpperCase) : UpperCase[i] = c]
    ELSE c

ToLowercase(s) == [i \in 1..Len(s) |-> ToLowerChar(s[i])]

Digits == <<"0", "1", "2", "3", "4", "5", "6", "7", "8", "9">>

IsDigit(c) == \E i \in 1..Len(Digits) : Digits[i] = c

DigitValue(c) == (CHOOSE i \in 1..Len(Digits) : Digits[i] = c) - 1

RECURSIVE DecimalValue(_)
DecimalValue(s) ==
    IF s = <<>> THEN 0
    ELSE 10 * DecimalValue(SubSeq(s, 1, Len(s) - 1)) + DigitValue(s[Len(s)])

AllDigits(s) == s # <<>> /\ \A i \in 1..Len(s) : IsDigit(s[i])

IsHexDigit(c) == IsDigit(c) \/ ToLowerChar(c) \in {"a", "b", "c", "d", "e", "f"}

(* str::parse::<Ipv4Addr>: four decimal octets, at most three digits each, no *)
(* leading zero, each at most 255.                                            *)
IsOctet(p) ==
    /\ Len(p) \in 1..3
    /\ AllDigits(p)
    /\ (Len(p) > 1 => p[1] # "0")
    /\ DecimalValue(p) <= 255

ParsesAsIpv4(s) ==
    LET parts == Split(s, ".")
    IN  Len(parts) = 4 /\ \A i \in 1..4 : IsOctet(parts[i])

(* str::parse::<Ipv6Addr>: groups of one to four hex digits separated by ':', *)
(* with at most one "::" standing for one or more zero groups.  The form with *)
(* a dotted-quad tail is not among the contents the model draws.              *)
IsHexGroup(p) == Len(p) \in 1..4 /\ \A i \in 1..Len(p) : IsHexDigit(p[i])

ParsesAsIpv6(s) ==
    LET parts == Split(s, ":")
        gaps == {i \in 1..(Len(s) - 1) : s[i] = ":" /\ s[i + 1] = ":"}
        groups == {i \in 1..Len(parts) : parts[i] # <<>>}
    IN  /\ \A i \in groups : IsHexGroup(parts[i])
        /\ IF gaps = {}
           THEN Len(parts) = 8 /\ Cardinality(groups) = 8
           ELSE /\ Cardinality(gaps) = 1
                /\ Cardinality(groups) <= 7
                /\ (s[1] = ":" => s[2] = ":")
                /\ (s[Len(s)] = ":" => s[Len(s) - 1] = ":")

---------------------------------------------------------------------------
(* types.rs *)

Providers == {"cloudflare", "dnspod", "aliyun", "huawei", "baidu", "dnscom",
              "rainyun", "tencentcloud"}

(* the order in which domains_list visits the providers *)
ProviderOrder == <<"cloudflare", "dnspod", "aliyun", "huawei", "baidu", "dnscom",
                   "rainyun", "tencentcloud">>

DomainStatus == {"Ok", "AuthFailed", "Unreachable", "FetchFailed", "NotConfigured"}

ConflictStrategy == {"DoNotCreate", "Overwrite"}

(* AppError { code, message } and Result<T, AppError> *)
Ok(v) == [ok |-> TRUE, code |-> "", message |-> <<>>, value |-> v]
Err(c, m) == [ok |-> FALSE, code |-> c, message |-> m, value |-> <<>>]

---------------------------------------------------------------------------
(* commands.rs: validate_record_request.  "ok" or the code of the error. *)

valid_types == {"A", "AAAA", "CNAME", "TXT", "MX", "NS", "SRV", "CAA"}

MinTtl == 60
MaxTtl == 86400

(* validate_record_request with the two bounds themselves refused *)
validate_record_request_open_bounds(req) ==
    LET name == Trim(req.name)
        content == Trim(req.content)
        parts == Split(name, ".")
    IN  IF req.record_type \notin valid_types THEN "invalid_type"
        ELSE IF name = <<>> THEN "invalid_name"
        ELSE IF content = <<>> THEN "invalid_content"
        ELSE IF req.ttl <= MinTtl \/ req.ttl >= MaxTtl THEN "invalid_ttl"
        ELSE IF req.record_type = "A"
             THEN (IF ParsesAsIpv4(content) THEN "ok" ELSE "invalid_content")
        ELSE IF req.record_type = "AAAA"
             THEN (IF ParsesAsIpv6(content) THEN "ok" ELSE "invalid_content")
        ELSE IF req.record_type \in {"CNAME", "NS"}
             THEN (IF Contains(content, <<".">>) THEN "ok" ELSE "invalid_content")
        ELSE IF req.record_type = "MX"
             THEN (IF IsNone(req.mx_priority) THEN "missing_field" ELSE "ok")
        ELSE IF req.record_type = "SRV"
             THEN (IF IsNone(req.srv_priority) \/ IsNone(req.srv_weight)
                         \/ IsNone(req.srv_port)
                   THEN "missing_field"
                   ELSE IF Len(parts) < 2 \/ ~StartsWith(parts[1], <<"_">>)
                              \/ ~StartsWith(parts[2], <<"_">>)
                        THEN "invalid_name"
                        ELSE "ok")
        ELSE IF req.record_type = "CAA"
             THEN (IF IsSome(req.caa_tag) /\ Trim(req.caa_tag[1]) = <<>>
                   THEN "invalid_caa_tag" ELSE "ok")
        ELSE "ok"

validate_record_request(req) ==
    LET name == Trim(req.name)
        content == Trim(req.content)
        parts == Split(name, ".")
    IN  IF req.record_type \notin valid_types THEN "invalid_type"
        ELSE IF name = <<>> THEN "invalid_name"
        ELSE IF content = <<>> THEN "invalid_content"
        ELSE IF req.ttl < MinTtl \/ req.ttl > MaxTtl THEN "invalid_ttl"
        ELSE IF req.record_type = "A"
             THEN (IF ParsesAsIpv4(content) THEN "ok" ELSE "invalid_content")
        ELSE IF req.record_type = "AAAA"
             THEN (IF ParsesAsIpv6(content) THEN "ok" ELSE "invalid_content")
        ELSE IF req.record_type \in {"CNAME", "NS"}
             THEN (IF Contains(content, <<".">>) THEN "ok" ELSE "invalid_content")
        ELSE IF req.record_type = "MX"
             THEN (IF IsNone(req.mx_priority) THEN "missing_field" ELSE "ok")
        ELSE IF req.record_type = "SRV"
             THEN (IF IsNone(req.srv_priority) \/ IsNone(req.srv_weight)
                         \/ IsNone(req.srv_port)
                   THEN "missing_field"
                   ELSE IF Len(parts) < 2 \/ ~StartsWith(parts[1], <<"_">>)
                              \/ ~StartsWith(parts[2], <<"_">>)
                        THEN "invalid_name"
                        ELSE "ok")
        ELSE IF req.record_type = "CAA"
             THEN (IF IsSome(req.caa_tag) /\ Trim(req.caa_tag[1]) = <<>>
                   THEN "invalid_caa_tag" ELSE "ok")
        ELSE "ok"

---------------------------------------------------------------------------
(* What a provider answers to one HTTP request.                            *)
(*   transport  "ok", or how reqwest's send() failed                       *)
(*   status     the HTTP status                                            *)
(*   json       the body is JSON                                           *)
(*   envelope   "ok": the provider's success marker; "auth" / "other": its *)
(*              error object with an auth-related / another code; "none":  *)
(*              a JSON object with neither                                 *)
(*   payload    the member the operation reads (result, zones, records,    *)
(*              record, data, RecordId) is present and well typed          *)

Resp(t, st, js, env, pl) ==
    [transport |-> t, status |-> st, json |-> js, envelope |-> env, payload |-> pl]

RespOk == Resp("ok", 200, TRUE, "ok", TRUE)

Responses ==
    { Resp("timeout", 0, FALSE, "none", FALSE),
      Resp("connect", 0, FALSE, "none", FALSE),
      Resp("other", 0, FALSE, "none", FALSE),
      RespOk,
      Resp("ok", 200, TRUE, "ok", FALSE),
      Resp("ok", 200, TRUE, "none", FALSE),
      Resp("ok", 200, FALSE, "none", FALSE),
      Resp("ok", 200, TRUE, "auth", FALSE),
      Resp("ok", 200, TRUE, "other", FALSE),
      Resp("ok", 401, TRUE, "auth", FALSE),
      Resp("ok", 403, TRUE, "auth", TRUE),
      Resp("ok", 403, FALSE, "none", FALSE),
      Resp("ok", 500, TRUE, "other", FALSE) }

IsSuccess(status) == status >= 200 /\ status <= 299

(* the texts of error messages: reqwest's, the provider's, and "HTTP <status>" *)
ReqwestText == <<"e", "r", "r", "o", "r">>
ProviderText == <<"d", "e", "n", "i", "e", "d">>
StatusText(st) ==
    CASE st = 200 -> <<"2", "0", "0">>
      [] st = 401 -> <<"4", "0", "1">>
      [] st = 403 -> <<"4", "0", "3">>
      [] st = 500 -> <<"5", "0", "0">>
      [] OTHER -> <<"0">>
HttpText(st) == <<"H", "T", "T", "P", " ">> \o StatusText(st)

(* From<reqwest::Error> without the is_timeout / is_connect branches *)
FromReqwest_flat(kind) == Err("network_error", ReqwestText)

(* error.rs: impl From<reqwest::Error> for AppError *)
FromReqwest(kind) ==
    IF kind = "timeout" THEN Err("timeout", ReqwestText)
    ELSE IF kind = "connect" THEN Err("unreachable", ReqwestText)
    ELSE Err("network_error", ReqwestText)

(* error.rs: impl From<anyhow::Error> for AppError *)
FromAnyhow(text) == Err("internal_error", text)

(* What a client operation hands back: its Result and the requests it sent. *)
Out(r, h) == [res |-> r, http |-> h]

(* Outcome of `send().await.map_err(AppError::from)?` followed by a decoder: *)
(* a transport failure never reaches the decoder.                            *)
Sent(resp, name, decoded) ==
    IF resp.transport # "ok"
    THEN Out(FromReqwest(resp.transport), <<name>>)
    ELSE Out(decoded, <<name>>)

---------------------------------------------------------------------------
(* Name Normalizer: providers/cloudflare.rs and providers/huawei.rs *)

Dot == <<".">>
At == <<"@">>

RECURSIVE TrimEndMatches(_, _)
TrimEndMatches(s, pat) ==
    IF pat # <<>> /\ EndsWith(s, pat)
    THEN TrimEndMatches(SubSeq(s, 1, Len(s) - Len(pat)), pat)
    ELSE s

normalize_full_name(zone_name, host) ==
    IF host = At \/ host = zone_name THEN zone_name
    ELSE IF EndsWith(host, Dot \o zone_name) \/ host = host \o Dot \o zone_name
         THEN host
         ELSE host \o Dot \o zone_name

(* the host computed by CfDnsRecord::to_dns_record *)
cf_host(name, zone_name) ==
    IF name = zone_name THEN At
    ELSE IF EndsWith(name, Dot \o zone_name)
         THEN SubSeq(name, 1, Len(name) - Len(zone_name) - 1)
         ELSE name

huawei_full_name(domain_name, host) ==
    IF host = At THEN TrimEndMatches(domain_name, Dot) \o Dot
    ELSE IF EndsWith(host, domain_name)
         THEN (IF EndsWith(host, Dot) THEN host ELSE host \o Dot)
         ELSE host \o Dot \o TrimEndMatches(domain_name, Dot) \o Dot

(* huawei_rr without the trim of the absolute name's trailing dot *)
huawei_rr_dotted(full_name, domain_name) ==
    LET suffix == Dot \o TrimEndMatches(domain_name, Dot)
    IN  IF full_name = TrimEndMatches(domain_name, Dot) THEN At
        ELSE IF EndsWith(full_name, suffix) THEN TrimEndMatches(full_name, suffix)
        ELSE full_name

huawei_rr(full_name, domain_name) ==
    LET normalized == TrimEndMatches(full_name, Dot)
        suffix == Dot \o TrimEndMatches(domain_name, Dot)
    IN  IF normalized = TrimEndMatches(domain_name, Dot) THEN At
        ELSE IF EndsWith(normalized, suffix) THEN TrimEndMatches(normalized, suffix)
        ELSE normalized

---------------------------------------------------------------------------
(* Value Codec: the `value` text of an SRV or CAA record at the providers  *)
(* that take no structured fields.  dnspod_value, aliyun_value,            *)
(* huawei_value, baidu_value, dnscom_value and tencent_value are one       *)
(* function under six names, and so are parse_huawei_record_value,         *)
(* parse_baidu_record_value, parse_dnscom_record_value, the tencentcloud   *)
(* parse_record_value and the match in DnspodRecord::to_dns_record.        *)

Space == <<" ">>
Issue == <<"i", "s", "s", "u", "e">>

UnwrapOr(o, d) == IF IsSome(o) THEN o[1] ELSE d

(* Display of an unsigned integer *)
RECURSIVE ToString(_)
ToString(n) ==
    IF n < 10 THEN <<Digits[n + 1]>>
    ELSE ToString(n \div 10) \o <<Digits[(n % 10) + 1]>>

(* str::parse::<u16>().ok() and ::<u8>().ok(): an optional '+', then digits, *)
(* the number within the type's range                                        *)
parse_uint(s, max) ==
    LET d == IF s # <<>> /\ s[1] = "+" THEN Tail(s) ELSE s
    IN  IF AllDigits(d) /\ DecimalValue(d) <= max THEN Some(DecimalValue(d)) ELSE None

MaxU16 == 65535
MaxU8 == 255

RECURSIVE SplitWhitespace(_)
SplitWhitespace(s) ==
    LET t == TrimStart(s)
        n == IF \E i \in 1..Len(t) : IsWhite(t[i])
             THEN CHOOSE k \in 1..Len(t) :
                      IsWhite(t[k]) /\ \A j \in 1..(k - 1) : ~IsWhite(t[j])
             ELSE Len(t) + 1
    IN  IF t = <<>> THEN <<>>
        ELSE <<SubSeq(t, 1, n - 1)>> \o SplitWhitespace(SubSeq(t, n, Len(t)))

RECURSIVE Join(_)
Join(parts) ==
    IF parts = <<>> THEN <<>>
    ELSE IF Len(parts) = 1 THEN parts[1]
    ELSE parts[1] \o Space \o Join(Tail(parts))

baidu_value(req) ==
    IF req.record_type = "SRV"
    THEN ToString(UnwrapOr(req.srv_priority, 0)) \o Space
         \o ToString(UnwrapOr(req.srv_weight, 0)) \o Space
         \o ToString(UnwrapOr(req.srv_port, 0)) \o Space \o req.content
    ELSE IF req.record_type = "CAA"
    THEN ToString(UnwrapOr(req.caa_flags, 0)) \o Space
         \o UnwrapOr(req.caa_tag, Issue) \o Space \o req.content
    ELSE req.content

(* the tuple parse_baidu_record_value returns *)
Parsed(content, srv_priority, srv_weight, srv_port, caa_flags, caa_tag) ==
    [content |-> content, srv_priority |-> srv_priority, srv_weight |-> srv_weight,
     srv_port |-> srv_port, caa_flags |-> caa_flags, caa_tag |-> caa_tag]

parse_baidu_record_value(record_type, value) ==
    LET parts == SplitWhitespace(value)
    IN  IF record_type = "SRV" /\ Len(parts) >= 4
        THEN Parsed(Join(SubSeq(parts, 4, Len(parts))), parse_uint(parts[1], MaxU16),
                    parse_uint(parts[2], MaxU16), parse_uint(parts[3], MaxU16),
                    None, None)
        ELSE IF record_type = "CAA" /\ Len(parts) >= 3
        THEN Parsed(Join(SubSeq(parts, 3, Len(parts))), None, None, None,
                    parse_uint(parts[1], MaxU8), Some(parts[2]))
        ELSE Parsed(value, None, None, None, None, None)

---------------------------------------------------------------------------
(* The provider side: the zone of the account and the records it holds.    *)
(* A record is kept under its zone-relative host; each provider's API      *)
(* names it its own way (Cloudflare: absolute name; Huawei: absolute name  *)
(* with the trailing dot; the others: the relative host).                  *)

ZoneName == <<"e", "x", ".", "i", "o">>
ZoneId == <<"7">>
NewId == <<"9">>

NativeName(p, host) ==
    LET full == IF host = At THEN ZoneName ELSE host \o Dot \o ZoneName
    IN  IF p = "cloudflare" THEN full
        ELSE IF p = "huawei" THEN full \o Dot
        ELSE host

DnsRecord(p, id, ty, name, content, ttl, mx_priority, srv_priority, srv_weight, srv_port, caa_flags, caa_tag) ==
    [id |-> id, provider |-> p, domain |-> ZoneName, record_type |-> ty,
     name |-> name, content |-> content, ttl |-> ttl, mx_priority |-> mx_priority,
     srv_priority |-> srv_priority, srv_weight |-> srv_weight,
     srv_port |-> srv_port, caa_flags |-> caa_flags, caa_tag |-> caa_tag]

(* A record on the wire: the body of a create or update request, and the   *)
(* record a provider holds and returns (CfDnsRecord, DnspodRecord,         *)
(* AliyunRecord, HuaweiRecordset, BaiduRecord, DnscomRecord, the JSON      *)
(* objects of rainyun and tencentcloud).  `value` is content / value /     *)
(* records[0] / Value, `priority` is priority / mx / Priority / MX.        *)
Wire(name, ty, value, ttl, priority, weight, port, data) ==
    [id |-> <<>>, name |-> name, record_type |-> ty, value |-> value, ttl |-> ttl,
     priority |-> priority, weight |-> weight, port |-> port, data |-> data]

(* the `data` object of a Cloudflare SRV or CAA record *)
CfData(priority, weight, port, target, flags, tag, value) ==
    [priority |-> priority, weight |-> weight, port |-> port, target |-> target,
     flags |-> flags, tag |-> tag, value |-> value]

(* cloudflare.rs: build_cf_payload_common *)
build_cf_payload_common(req) ==
    LET full_name == normalize_full_name(ZoneName, req.name)
    IN  IF req.record_type = "SRV"
        THEN Wire(full_name, req.record_type, None, req.ttl, None, None, None,
                  Some(CfData(Some(UnwrapOr(req.srv_priority, 0)),
                              Some(UnwrapOr(req.srv_weight, 0)),
                              Some(UnwrapOr(req.srv_port, 0)),
                              Some(req.content), None, None, None)))
        ELSE IF req.record_type = "CAA"
        THEN Wire(full_name, req.record_type, None, req.ttl, None, None, None,
                  Some(CfData(None, None, None, None,
                              Some(UnwrapOr(req.caa_flags, 0)),
                              Some(UnwrapOr(req.caa_tag, Issue)),
                              Some(req.content))))
        ELSE Wire(full_name, req.record_type, Some(req.content), req.ttl,
                  IF req.record_type = "MX" THEN req.mx_priority ELSE None,
                  None, None, None)

(* dnspod.rs: the form of Record.Create and Record.Modify *)
dnspod_params(req) ==
    Wire(req.name, req.record_type, Some(baidu_value(req)), req.ttl,
         IF req.record_type = "MX" THEN req.mx_priority ELSE None, None, None, None)

(* aliyun.rs: the parameters of AddDomainRecord and UpdateDomainRecord *)
aliyun_params(req) ==
    Wire(req.name, req.record_type, Some(baidu_value(req)), req.ttl,
         IF req.record_type \in {"MX", "SRV"}
         THEN (IF IsSome(req.mx_priority) THEN req.mx_priority ELSE req.srv_priority)
         ELSE None,
         IF req.record_type = "SRV" THEN req.srv_weight ELSE None,
         IF req.record_type = "SRV" THEN req.srv_port ELSE None,
         None)

(* huawei.rs: HuaweiRecordsetCreateRequest { name, type, ttl, records } *)
HuaweiRecordsetCreateRequest(req) ==
    Wire(huawei_full_name(ZoneName, req.name), req.record_type,
         Some(baidu_value(req)), req.ttl, None, None, None, None)

(* baidu.rs: BaiduRecordCreateRequest { rr, type, value, ttl, priority } *)
BaiduRecordCreateRequest(req) ==
    Wire(req.name, req.record_type, Some(baidu_value(req)), req.ttl,
         req.mx_priority, None, None, None)

(* dnscom.rs: the form of record/create and record/modify *)
dnscom_params(req) ==
    Wire(req.name, req.record_type, Some(baidu_value(req)), req.ttl,
         IF req.record_type = "MX" THEN req.mx_priority ELSE None, None, None, None)

(* rainyun.rs: RainyunRecordPayload { host, level, line, .., ttl, type, value } *)
RainyunRecordPayload(req) ==
    Wire(req.name, req.record_type, Some(req.content), req.ttl,
         None, None, None, None)

(* tencentcloud.rs: the body of CreateRecord and ModifyRecord *)
tencent_payload(req) ==
    Wire(IF Trim(req.name) = <<>> THEN At ELSE req.name, req.record_type,
         Some(baidu_value(req)), req.ttl,
         IF req.record_type = "MX" THEN req.mx_priority ELSE None, None, None, None)

(* the body each client sends for a record *)
payload(p, req) ==
    CASE p = "cloudflare" -> build_cf_payload_common(req)
      [] p = "dnspod" -> dnspod_params(req)
      [] p = "aliyun" -> aliyun_params(req)
      [] p = "huawei" -> HuaweiRecordsetCreateRequest(req)
      [] p = "baidu" -> BaiduRecordCreateRequest(req)
      [] p = "dnscom" -> dnscom_params(req)
      [] p = "rainyun" -> RainyunRecordPayload(req)
      [] p = "tencentcloud" -> tencent_payload(req)

(* the provider keeps what it is sent, under an id, and returns it as kept *)
Stored(id, body) == [body EXCEPT !.id = id]

(* cloudflare.rs: CfDnsRecord::to_dns_record *)
CfDnsRecord_to_dns_record(r) ==
    LET srv == r.record_type = "SRV" /\ IsSome(r.data)
        caa == r.record_type = "CAA" /\ IsSome(r.data)
        d == r.data[1]
    IN  DnsRecord("cloudflare", r.id, r.record_type, cf_host(r.name, ZoneName),
                  IF srv /\ IsSome(d.target) THEN d.target[1]
                  ELSE IF caa /\ IsSome(d.value) THEN d.value[1]
                  ELSE UnwrapOr(r.value, <<>>),
                  r.ttl,
                  IF r.record_type = "MX" THEN r.priority ELSE None,
                  IF srv THEN d.priority ELSE None,
                  IF srv THEN d.weight ELSE None,
                  IF srv THEN d.port ELSE None,
                  IF caa THEN d.flags ELSE None,
                  IF caa THEN d.tag ELSE None)

(* A DnsRecord whose content and SRV / CAA fields are decoded from `text`: *)
(* DnspodRecord::to_dns_record, huawei.rs list_records (loop body),        *)
(* BaiduRecord::to_dns_record, DnscomRecord::to_dns_record and the         *)
(* tencentcloud parse_record_item with the wire record's own value; the    *)
(* create and update of huawei, baidu and tencentcloud with req.content.   *)
Decoded(p, r, name, text, mx_priority) ==
    LET v == parse_baidu_record_value(r.record_type, text)
    IN  DnsRecord(p, r.id, r.record_type, name, v.content, r.ttl, mx_priority,
                  v.srv_priority, v.srv_weight, v.srv_port, v.caa_flags, v.caa_tag)

(* aliyun.rs: AliyunRecord::to_dns_record *)
AliyunRecord_to_dns_record(r) ==
    DnsRecord("aliyun", r.id, r.record_type, r.name, UnwrapOr(r.value, <<>>), r.ttl,
              r.priority, None, None, None, None, None)

(* rainyun.rs: parse_record_item; "priority" is read for mx_priority and for *)
(* srv_priority alike                                                        *)
rainyun_parse_record_item(r) ==
    DnsRecord("rainyun", r.id, r.record_type, r.name, UnwrapOr(r.value, <<>>), r.ttl,
              r.priority, r.priority, r.weight, r.port, None, None)

(* list_records of each client: the DnsRecord of one record of the answer *)
to_dns_record(p, r) ==
    CASE p = "cloudflare" -> CfDnsRecord_to_dns_record(r)
      [] p = "aliyun" -> AliyunRecord_to_dns_record(r)
      [] p = "rainyun" -> rainyun_parse_record_item(r)
      [] p = "huawei" ->
            Decoded(p, r, huawei_rr(r.name, ZoneName), UnwrapOr(r.value, <<>>), r.priority)
      [] OTHER -> Decoded(p, r, r.name, UnwrapOr(r.value, <<>>), r.priority)

(* the request that wrote the record r of the zone *)
Written(r) ==
    [f \in (DOMAIN r \ {"id", "host"}) \cup {"name"} |->
        IF f = "name" THEN r.host ELSE r[f]]

ToDnsRecord(p, r) == to_dns_record(p, Stored(r.id, payload(p, Written(r))))

(* The page a list request asks for: PageSize, limit, paginate, Limit,     *)
(* per_page.  None: the request names none.  Every list is one request.    *)
records_limit(p) ==
    CASE p = "cloudflare" -> Some(50000)
      [] p \in {"aliyun", "huawei", "dnscom", "rainyun", "tencentcloud"} -> Some(500)
      [] OTHER -> None

zones_limit(p) ==
    CASE p \in {"cloudflare", "tencentcloud"} -> Some(200)
      [] p \in {"aliyun", "huawei", "dnscom"} -> Some(500)
      [] OTHER -> None

(* What the provider holds is `others` entries of no further interest (no  *)
(* request names them) followed by `items`; the provider answers with the  *)
(* first `limit` of them.                                                  *)
Page(limit, held) ==
    LET n == IF IsNone(limit) THEN held.others + Len(held.items) ELSE limit[1]
        k == IF held.others < n THEN n - held.others ELSE 0
    IN  [others |-> IF held.others < n THEN held.others ELSE n,
         items |-> SubSeq(held.items, 1, IF Len(held.items) < k THEN Len(held.items) ELSE k)]

OtherName == <<"o">>

(* `times` records of the answer that no request names, as one entry *)
OtherRecords(p, times) ==
    [f \in DOMAIN DnsRecord(p, <<>>, "TXT", OtherName, <<>>, 600, None, None, None,
                            None, None, None) \cup {"times"} |->
        IF f = "times" THEN times
        ELSE DnsRecord(p, <<>>, "TXT", OtherName, <<>>, 600, None, None, None,
                       None, None, None)[f]]

(* how many entries a Vec of the model stands for *)
RECURSIVE Count(_)
Count(list) ==
    IF list = <<>> THEN 0
    ELSE (IF "times" \in DOMAIN Head(list) THEN Head(list).times ELSE 1)
         + Count(Tail(list))

ListedRecords(p, zone) ==
    LET page == Page(records_limit(p), zone)
    IN  (IF page.others > 0 THEN <<OtherRecords(p, page.others)>> ELSE <<>>)
        \o [i \in 1..Len(page.items) |-> ToDnsRecord(p, page.items[i])]

DomainItem(p, name, id, status, count) ==
    [provider |-> p, name |-> name, provider_id |-> id, status |-> status,
     records_count |-> count]

---------------------------------------------------------------------------
(* Provider clients.  Every operation takes the credentials, its arguments *)
(* and the provider's answer, and yields Out(result, requests sent).       *)
(* Credentials are { hdr_ok }: whether HeaderValue::from_str accepts them. *)
(* list_records takes `records`, the page of the answer with every record *)
(* through the client's to_dns_record (see client_list_records).           *)

Panic == Err("panic", <<>>)
IsPanic(r) == ~r.ok /\ r.code = "panic"

(* `let x = e; F(x)`: e is computed once *)
Then(e, F(_)) == CHOOSE y \in {F(x) : x \in {e}} : TRUE

(* `pre` is what happens before the request is built and sent *)
Call(pre, name, resp, decoded) ==
    IF ~pre.ok THEN Out(pre, <<>>) ELSE Sent(resp, name, decoded)

DecodeError == FromReqwest("decode")

(* fn headers / base_headers / the header block of TencentCloudClient::request *)
headers(p, creds) ==
    IF creds.hdr_ok \/ p \in {"aliyun", "dnscom"} THEN Ok(<<>>)
    ELSE IF p = "dnspod" THEN Panic
    ELSE IF p = "baidu" THEN Err("invalid_header", ReqwestText)
    ELSE Err("invalid_input", ReqwestText)

parse_u64(s) == IF AllDigits(Trim(s)) THEN Some(DecimalValue(Trim(s))) ELSE None

(* `times` zones of the answer that no search names, as one entry *)
OtherZones(p, times) ==
    [f \in DOMAIN DomainItem(p, OtherName, <<>>, "Ok", None) \cup {"times"} |->
        IF f = "times" THEN times ELSE DomainItem(p, OtherName, <<>>, "Ok", None)[f]]

DomainItems(p, zones, counted) ==
    LET page == Page(zones_limit(p), zones)
    IN  (IF page.others > 0 THEN <<OtherZones(p, page.others)>> ELSE <<>>)
        \o [i \in 1..Len(page.items) |->
               DomainItem(p, TrimEndMatches(page.items[i].name, Dot), page.items[i].id,
                          "Ok",
                          IF counted THEN Some(page.items[i].record_num) ELSE None)]

Discard(out) == Out(IF out.res.ok THEN Ok(<<>>) ELSE out.res, out.http)

(* a DnsRecord filled from the request alone: aliyun.rs create_record and *)
(* update_record, the tail of the rainyun parse_record_from_response     *)
FromRequest(p, id, req) ==
    DnsRecord(p, id, req.record_type, req.name, req.content, req.ttl,
              req.mx_priority, req.srv_priority, req.srv_weight, req.srv_port,
              req.caa_flags, req.caa_tag)

(* ---- providers/cloudflare.rs: res.json::<CfResponse<T>>(), status unread. *)
(* `nullable`: T is serde_json::Value, which takes `"result": null`.         *)
cf_response(resp, nullable, code) ==
    IF ~resp.json \/ resp.envelope = "none" \/ ~(resp.payload \/ nullable)
    THEN DecodeError
    ELSE IF resp.envelope # "ok" THEN Err(code, ProviderText)
    ELSE Ok(TRUE)

CloudflareClient_test(creds, resp) ==
    Call(headers("cloudflare", creds), "test", resp,
         LET r == cf_response(resp, FALSE, "auth_failed")
         IN  IF r.ok THEN Ok(<<>>) ELSE r)

CloudflareClient_list_domains(creds, resp, zones, cnt) ==
    LET r == cf_response(resp, FALSE, "fetch_failed")
        o == Call(headers("cloudflare", creds), "list_domains", resp,
                  IF r.ok
                  THEN Ok(DomainItems("cloudflare", zones,
                                      cf_response(cnt, FALSE, "fetch_failed").ok
                                          /\ cnt.transport = "ok"))
                  ELSE r)
    IN  IF o.res.ok
        THEN Out(o.res, o.http \o [i \in 1..Count(o.res.value) |-> "zone_records_count"])
        ELSE o

CloudflareClient_list_records(creds, resp, records) ==
    Call(headers("cloudflare", creds), "list_records", resp,
         LET r == cf_response(resp, FALSE, "fetch_failed")
         IN  IF r.ok THEN Ok(records) ELSE r)

(* the provider filters by type and absolute name *)
CloudflareClient_find_conflict_ids(creds, record_type, host, resp, zone) ==
    Call(headers("cloudflare", creds), "find_conflict_ids", resp,
         LET r == cf_response(resp, FALSE, "fetch_failed")
             full_name == normalize_full_name(ZoneName, host)
             hits == SelectSeq(zone.items, LAMBDA z :
                        z.record_type = record_type
                        /\ NativeName("cloudflare", z.host) = full_name)
         IN  IF r.ok THEN Ok([i \in 1..Len(hits) |-> hits[i].id]) ELSE r)

CloudflareClient_create_record(creds, req, resp) ==
    Call(headers("cloudflare", creds), "create_record", resp,
         LET r == cf_response(resp, FALSE, "create_failed")
         IN  IF r.ok THEN Ok(CfDnsRecord_to_dns_record(Stored(NewId, build_cf_payload_common(req)))) ELSE r)

CloudflareClient_update_record(creds, req, resp) ==
    Call(headers("cloudflare", creds), "update_record", resp,
         LET r == cf_response(resp, FALSE, "update_failed")
         IN  IF r.ok THEN Ok(CfDnsRecord_to_dns_record(Stored(req.id, build_cf_payload_common(req)))) ELSE r)

CloudflareClient_delete_record(creds, record_id, resp) ==
    Call(headers("cloudflare", creds), "delete_record", resp,
         LET r == cf_response(resp, TRUE, "delete_failed")
         IN  IF r.ok THEN Ok(<<>>) ELSE r)

(* ---- providers/dnspod.rs *)
parse_response(resp) ==
    IF ~IsSuccess(resp.status) THEN Err("http_error", HttpText(resp.status))
    ELSE IF ~resp.json \/ resp.envelope = "none"
         THEN Err("json_decode_failed", ProviderText)
         ELSE Ok(resp.payload)

ensure_ok(resp) ==
    IF resp.envelope = "ok" THEN Ok(<<>>) ELSE Err("auth_failed", ProviderText)

(* parse_response(res).await? then ensure_ok(&parsed.status)? *)
dnspod_reply(resp) ==
    IF ~parse_response(resp).ok THEN parse_response(resp)
    ELSE IF ~ensure_ok(resp).ok THEN ensure_ok(resp)
    ELSE Ok(resp.payload)

DnspodClient_list_domains(creds, resp, zones) ==
    Call(headers("dnspod", creds), "list_domains", resp,
         LET r == dnspod_reply(resp)
         IN  IF ~r.ok THEN r
             ELSE Ok(IF r.value THEN DomainItems("dnspod", zones, TRUE) ELSE <<>>))

DnspodClient_test(creds, resp, zones) == Discard(DnspodClient_list_domains(creds, resp, zones))

DnspodClient_list_records(creds, resp, records) ==
    Call(headers("dnspod", creds), "list_records", resp,
         LET r == dnspod_reply(resp)
         IN  IF ~r.ok THEN r
             ELSE Ok(IF r.value THEN records ELSE <<>>))

DnspodClient_create_record(creds, req, resp) ==
    Call(headers("dnspod", creds), "create_record", resp,
         LET r == dnspod_reply(resp)
         IN  IF ~r.ok THEN r
             ELSE IF ~r.value THEN FromAnyhow(ProviderText)
             ELSE LET record == Stored(NewId, dnspod_params(req))
                  IN  Ok(Decoded("dnspod", record, record.name, baidu_value(req),
                                 IF IsSome(record.priority) THEN record.priority
                                 ELSE req.mx_priority)))

DnspodClient_update_record(creds, req, resp) ==
    Call(headers("dnspod", creds), "update_record", resp,
         LET r == dnspod_reply(resp)
         IN  IF ~r.ok THEN r
             ELSE IF ~r.value THEN FromAnyhow(ProviderText)
             ELSE LET record == Stored(req.id, dnspod_params(req))
                  IN  Ok(Decoded("dnspod", record, record.name, baidu_value(req),
                                 IF IsSome(record.priority) THEN record.priority
                                 ELSE req.mx_priority)))

DnspodClient_delete_record(creds, record_id, resp) ==
    Call(headers("dnspod", creds), "delete_record", resp,
         LET r == dnspod_reply(resp) IN IF r.ok THEN Ok(<<>>) ELSE r)

(* ---- providers/aliyun.rs: AliyunClient::request *)
aliyun_request(resp) ==
    IF ~IsSuccess(resp.status) THEN Err("fetch_failed", HttpText(resp.status))
    ELSE IF resp.json /\ resp.envelope \in {"auth", "other"}
         THEN Err(IF resp.envelope = "auth" THEN "auth_failed" ELSE "fetch_failed",
                  ProviderText)
    ELSE IF ~resp.json THEN Err("json_decode_failed", ProviderText)
    ELSE Ok(resp.payload)

AliyunClient_list_domains(creds, resp, zones) ==
    Call(headers("aliyun", creds), "list_domains", resp,
         LET r == aliyun_request(resp)
         IN  IF ~r.ok THEN r
             ELSE Ok(IF r.value THEN DomainItems("aliyun", zones, TRUE) ELSE <<>>))

AliyunClient_test(creds, resp, zones) == Discard(AliyunClient_list_domains(creds, resp, zones))

AliyunClient_list_records(creds, resp, records) ==
    Call(headers("aliyun", creds), "list_records", resp,
         LET r == aliyun_request(resp)
         IN  IF ~r.ok THEN r
             ELSE Ok(IF r.value THEN records ELSE <<>>))

AliyunClient_create_record(creds, req, resp) ==
    Call(headers("aliyun", creds), "create_record", resp,
         LET r == aliyun_request(resp)
         IN  IF ~r.ok THEN r
             ELSE Ok(FromRequest("aliyun", IF r.value THEN NewId ELSE <<>>, req)))

AliyunClient_update_record(creds, req, resp) ==
    Call(headers("aliyun", creds), "update_record", resp,
         LET r == aliyun_request(resp)
         IN  IF ~r.ok THEN r ELSE Ok(FromRequest("aliyun", req.id, req)))

AliyunClient_delete_record(creds, record_id, resp) ==
    Call(headers("aliyun", creds), "delete_record", resp,
         LET r == aliyun_request(resp) IN IF r.ok THEN Ok(<<>>) ELSE r)

(* ---- providers/huawei.rs and providers/baidu.rs: res.json() with the   *)
(* status unread; the list members are Option, the record struct is not.  *)
json_list(resp) == IF ~resp.json THEN DecodeError ELSE Ok(resp.payload)

json_record(resp) ==
    IF ~resp.json \/ ~resp.payload THEN DecodeError ELSE Ok(TRUE)

status_only(resp) ==
    IF ~IsSuccess(resp.status) THEN Err("delete_failed", HttpText(resp.status))
    ELSE Ok(<<>>)

HuaweiClient_list_domains(creds, resp, zones) ==
    Call(headers("huawei", creds), "list_domains", resp,
         LET r == json_list(resp)
         IN  IF ~r.ok THEN r
             ELSE Ok(IF r.value THEN DomainItems("huawei", zones, TRUE) ELSE <<>>))

HuaweiClient_test(creds, resp, zones) == Discard(HuaweiClient_list_domains(creds, resp, zones))

HuaweiClient_list_records(creds, resp, records) ==
    Call(headers("huawei", creds), "list_records", resp,
         LET r == json_list(resp)
         IN  IF ~r.ok THEN r
             ELSE Ok(IF r.value THEN records ELSE <<>>))

HuaweiClient_create_record(creds, req, resp) ==
    Call(headers("huawei", creds), "create_record", resp,
         LET r == json_record(resp)
             parsed == Stored(NewId, HuaweiRecordsetCreateRequest(req))
         IN  IF ~r.ok THEN r
             ELSE Ok(Decoded("huawei", parsed, huawei_rr(parsed.name, ZoneName),
                             req.content, parsed.priority)))

HuaweiClient_update_record(creds, req, resp) ==
    Call(headers("huawei", creds), "update_record", resp,
         LET r == json_record(resp)
             parsed == Stored(req.id, HuaweiRecordsetCreateRequest(req))
         IN  IF ~r.ok THEN r
             ELSE Ok(Decoded("huawei", parsed, huawei_rr(parsed.name, ZoneName),
                             req.content, parsed.priority)))

HuaweiClient_delete_record(creds, record_id, resp) ==
    Call(headers("huawei", creds), "delete_record", resp, status_only(resp))

BaiduClient_list_domains(creds, resp, zones) ==
    Call(headers("baidu", creds), "list_domains", resp,
         LET r == json_list(resp)
         IN  IF ~r.ok THEN r
             ELSE Ok(IF r.value THEN DomainItems("baidu", zones, TRUE) ELSE <<>>))

BaiduClient_test(creds, resp, zones) == Discard(BaiduClient_list_domains(creds, resp, zones))

BaiduClient_list_records(creds, resp, records) ==
    Call(headers("baidu", creds), "list_records", resp,
         LET r == json_list(resp)
         IN  IF ~r.ok THEN r
             ELSE Ok(IF r.value THEN records ELSE <<>>))

BaiduClient_create_record(creds, req, resp) ==
    Call(headers("baidu", creds), "create_record", resp,
         LET r == json_record(resp)
             parsed == Stored(NewId, BaiduRecordCreateRequest(req))
         IN  IF ~r.ok THEN r
             ELSE Ok(Decoded("baidu", parsed, parsed.name, req.content,
                             parsed.priority)))

BaiduClient_update_record(creds, req, resp) ==
    Call(headers("baidu", creds), "update_record", resp,
         LET r == json_record(resp)
             parsed == Stored(req.id, BaiduRecordCreateRequest(req))
         IN  IF ~r.ok THEN r
             ELSE Ok(Decoded("baidu", parsed, parsed.name, req.content,
                             parsed.priority)))

BaiduClient_delete_record(creds, record_id, resp) ==
    Call(headers("baidu", creds), "delete_record", resp, status_only(resp))

(* ---- providers/dnscom.rs: res.json::<DnscomResponse<T>>() then ensure_ok *)
dnscom_reply(resp) ==
    IF ~resp.json \/ resp.envelope = "none" THEN DecodeError
    ELSE IF resp.envelope # "ok" THEN Err("auth_failed", ProviderText)
    ELSE Ok(resp.payload)

DnscomClient_list_domains(creds, resp, zones) ==
    Call(headers("dnscom", creds), "list_domains", resp,
         LET r == dnscom_reply(resp)
         IN  IF ~r.ok THEN r
             ELSE Ok(IF r.value THEN DomainItems("dnscom", zones, TRUE) ELSE <<>>))

DnscomClient_test(creds, resp, zones) == Discard(DnscomClient_list_domains(creds, resp, zones))

DnscomClient_list_records(creds, resp, records) ==
    Call(headers("dnscom", creds), "list_records", resp,
         LET r == dnscom_reply(resp)
         IN  IF ~r.ok THEN r
             ELSE Ok(IF r.value THEN records ELSE <<>>))

DnscomClient_create_record(creds, req, resp) ==
    Call(headers("dnscom", creds), "create_record", resp,
         LET r == dnscom_reply(resp)
         IN  IF ~r.ok THEN r
             ELSE IF ~r.value THEN FromAnyhow(ProviderText)
             ELSE Ok(to_dns_record("dnscom", Stored(NewId, dnscom_params(req)))))

DnscomClient_update_record(creds, req, resp) ==
    Call(headers("dnscom", creds), "update_record", resp,
         LET r == dnscom_reply(resp)
         IN  IF ~r.ok THEN r
             ELSE IF ~r.value THEN FromAnyhow(ProviderText)
             ELSE Ok(to_dns_record("dnscom", Stored(req.id, dnscom_params(req)))))

DnscomClient_delete_record(creds, record_id, resp) ==
    Call(headers("dnscom", creds), "delete_record", resp,
         LET r == dnscom_reply(resp) IN IF r.ok THEN Ok(<<>>) ELSE r)

(* ---- providers/rainyun.rs *)
parse_json_or_error(resp, code) ==
    IF ~IsSuccess(resp.status)
    THEN Err(IF resp.status = 401 \/ resp.status = 403 THEN "auth_failed" ELSE code,
             HttpText(resp.status))
    ELSE IF ~resp.json THEN DecodeError
    ELSE Ok(resp.payload)

FabricatedId == <<"0">>

InvalidId == Err("invalid_input", ReqwestText)

RainyunClient_list_domains(creds, resp, zones) ==
    Call(headers("rainyun", creds), "list_domains", resp,
         LET r == parse_json_or_error(resp, "fetch_failed")
         IN  IF ~r.ok THEN r
             ELSE Ok(IF r.value THEN DomainItems("rainyun", zones, FALSE) ELSE <<>>))

RainyunClient_test(creds, resp, zones) == Discard(RainyunClient_list_domains(creds, resp, zones))

RainyunClient_list_records(creds, resp, records) ==
    Call(headers("rainyun", creds), "list_records", resp,
         LET r == parse_json_or_error(resp, "fetch_failed")
         IN  IF ~r.ok THEN r
             ELSE Ok(IF r.value THEN records ELSE <<>>))

RainyunClient_create_record(creds, req, resp) ==
    Call(headers("rainyun", creds), "create_record", resp,
         LET r == parse_json_or_error(resp, "create_failed")
         IN  IF ~r.ok THEN r
             ELSE Ok(IF r.value
                     THEN rainyun_parse_record_item(Stored(NewId, RainyunRecordPayload(req)))
                     ELSE FromRequest("rainyun", FabricatedId, req)))

RainyunClient_update_record(creds, req, resp) ==
    Call(IF IsNone(parse_u64(req.id)) THEN InvalidId ELSE headers("rainyun", creds),
         "update_record", resp,
         LET r == parse_json_or_error(resp, "update_failed")
         IN  IF ~r.ok THEN r
             ELSE Ok(IF r.value
                     THEN rainyun_parse_record_item(Stored(req.id, RainyunRecordPayload(req)))
                     ELSE FromRequest("rainyun", ToString(parse_u64(req.id)[1]), req)))

RainyunClient_delete_record(creds, record_id, resp) ==
    Call(IF IsNone(parse_u64(record_id)) THEN InvalidId ELSE headers("rainyun", creds),
         "delete_record", resp,
         IF ~IsSuccess(resp.status)
         THEN Err(IF resp.status = 401 \/ resp.status = 403
                  THEN "auth_failed" ELSE "delete_failed", HttpText(resp.status))
         ELSE Ok(<<>>))

(* ---- providers/tencentcloud.rs: TencentCloudClient::request *)
tencent_request(resp) ==
    IF ~IsSuccess(resp.status) THEN Err("fetch_failed", HttpText(resp.status))
    ELSE IF ~resp.json THEN Err("json_decode_failed", ProviderText)
    ELSE IF resp.envelope \in {"auth", "other"}
         THEN Err(IF resp.envelope = "auth" THEN "auth_failed" ELSE "fetch_failed",
                  ProviderText)
    ELSE Ok(resp.payload)

TencentCloudClient_list_domains(creds, resp, zones) ==
    Call(headers("tencentcloud", creds), "list_domains", resp,
         LET r == tencent_request(resp)
         IN  IF ~r.ok THEN r
             ELSE Ok(IF r.value THEN DomainItems("tencentcloud", zones, TRUE) ELSE <<>>))

TencentCloudClient_test(creds, resp, zones) ==
    Discard(TencentCloudClient_list_domains(creds, resp, zones))

TencentCloudClient_list_records(creds, resp, records) ==
    Call(headers("tencentcloud", creds), "list_records", resp,
         LET r == tencent_request(resp)
         IN  IF ~r.ok THEN r
             ELSE Ok(IF r.value THEN records ELSE <<>>))

TencentCloudClient_create_record(creds, req, resp) ==
    Call(IF req.record_type = "MX" /\ IsNone(req.mx_priority)
         THEN InvalidId ELSE headers("tencentcloud", creds),
         "create_record", resp,
         LET r == tencent_request(resp)
         IN  IF ~r.ok THEN r
             ELSE Ok(Decoded("tencentcloud",
                             Stored(IF r.value THEN NewId ELSE FabricatedId,
                                    tencent_payload(req)),
                             req.name, req.content, req.mx_priority)))

TencentCloudClient_update_record(creds, req, resp) ==
    Call(IF req.record_type = "MX" /\ IsNone(req.mx_priority)
         THEN InvalidId ELSE headers("tencentcloud", creds),
         "update_record", resp,
         LET r == tencent_request(resp)
         IN  IF ~r.ok THEN r
             ELSE Ok(Decoded("tencentcloud",
                             Stored(IF r.value THEN req.id
                                    ELSE ToString(UnwrapOr(parse_u64(req.id), 0)),
                                    tencent_payload(req)),
                             req.name, req.content, req.mx_priority)))

TencentCloudClient_delete_record(creds, record_id, resp) ==
    Call(headers("tencentcloud", creds), "delete_record", resp,
         LET r == tencent_request(resp) IN IF r.ok THEN Ok(<<>>) ELSE r)

---------------------------------------------------------------------------
(* The client of each provider, by provider. *)

client_test(p, creds, resp, zones, cnt) ==
    CASE p = "cloudflare" -> CloudflareClient_test(creds, resp)
      [] p = "dnspod" -> DnspodClient_test(creds, resp, zones)
      [] p = "aliyun" -> AliyunClient_test(creds, resp, zones)
      [] p = "huawei" -> HuaweiClient_test(creds, resp, zones)
      [] p = "baidu" -> BaiduClient_test(creds, resp, zones)
      [] p = "dnscom" -> DnscomClient_test(creds, resp, zones)
      [] p = "rainyun" -> RainyunClient_test(creds, resp, zones)
      [] p = "tencentcloud" -> TencentCloudClient_test(creds, resp, zones)

client_list_domains(p, creds, resp, zones, cnt) ==
    CASE p = "cloudflare" -> CloudflareClient_list_domains(creds, resp, zones, cnt)
      [] p = "dnspod" -> DnspodClient_list_domains(creds, resp, zones)
      [] p = "aliyun" -> AliyunClient_list_domains(creds, resp, zones)
      [] p = "huawei" -> HuaweiClient_list_domains(creds, resp, zones)
      [] p = "baidu" -> BaiduClient_list_domains(creds, resp, zones)
      [] p = "dnscom" -> DnscomClient_list_domains(creds, resp, zones)
      [] p = "rainyun" -> RainyunClient_list_domains(creds, resp, zones)
      [] p = "tencentcloud" -> TencentCloudClient_list_domains(creds, resp, zones)

client_list_records(p, creds, resp, zone) ==
    LET records == ListedRecords(p, zone)
    IN
    CASE p = "cloudflare" -> CloudflareClient_list_records(creds, resp, records)
      [] p = "dnspod" -> DnspodClient_list_records(creds, resp, records)
      [] p = "aliyun" -> AliyunClient_list_records(creds, resp, records)
      [] p = "huawei" -> HuaweiClient_list_records(creds, resp, records)
      [] p = "baidu" -> BaiduClient_list_records(creds, resp, records)
      [] p = "dnscom" -> DnscomClient_list_records(creds, resp, records)
      [] p = "rainyun" -> RainyunClient_list_records(creds, resp, records)
      [] p = "tencentcloud" -> TencentCloudClient_list_records(creds, resp, records)

client_create_record(p, creds, req, resp) ==
    CASE p = "cloudflare" -> CloudflareClient_create_record(creds, req, resp)
      [] p = "dnspod" -> DnspodClient_create_record(creds, req, resp)
      [] p = "aliyun" -> AliyunClient_create_record(creds, req, resp)
      [] p = "huawei" -> HuaweiClient_create_record(creds, req, resp)
      [] p = "baidu" -> BaiduClient_create_record(creds, req, resp)
      [] p = "dnscom" -> DnscomClient_create_record(creds, req, resp)
      [] p = "rainyun" -> RainyunClient_create_record(creds, req, resp)
      [] p = "tencentcloud" -> TencentCloudClient_create_record(creds, req, resp)

client_update_record(p, creds, req, resp) ==
    CASE p = "cloudflare" -> CloudflareClient_update_record(creds, req, resp)
      [] p = "dnspod" -> DnspodClient_update_record(creds, req, resp)
      [] p = "aliyun" -> AliyunClient_update_record(creds, req, resp)
      [] p = "huawei" -> HuaweiClient_update_record(creds, req, resp)
      [] p = "baidu" -> BaiduClient_update_record(creds, req, resp)
      [] p = "dnscom" -> DnscomClient_update_record(creds, req, resp)
      [] p = "rainyun" -> RainyunClient_update_record(creds, req, resp)
      [] p = "tencentcloud" -> TencentCloudClient_update_record(creds, req, resp)

client_delete_record(p, creds, record_id, resp) ==
    CASE p = "cloudflare" -> CloudflareClient_delete_record(creds, record_id, resp)
      [] p = "dnspod" -> DnspodClient_delete_record(creds, record_id, resp)
      [] p = "aliyun" -> AliyunClient_delete_record(creds, record_id, resp)
      [] p = "huawei" -> HuaweiClient_delete_record(creds, record_id, resp)
      [] p = "baidu" -> BaiduClient_delete_record(creds, record_id, resp)
      [] p = "dnscom" -> DnscomClient_delete_record(creds, record_id, resp)
      [] p = "rainyun" -> RainyunClient_delete_record(creds, record_id, resp)
      [] p = "tencentcloud" -> TencentCloudClient_delete_record(creds, record_id, resp)

---------------------------------------------------------------------------
(* vault.rs *)

PlainVaultDefault == [p \in Providers |-> None]

(* the key check and the AEAD tag both fail on another password *)
decrypt_vault(file, master_password) ==
    IF IsNone(file) THEN Err("io_error", ReqwestText)
    ELSE IF file[1].key # master_password
         THEN Err("invalid_master_password", ReqwestText)
         ELSE Ok(file[1].plain)

(* initialize_vault: the VaultFile it writes, every flag false *)
initialize_vault(master_password) ==
    Some([key |-> master_password, plain |-> PlainVaultDefault,
          configured |-> [p \in Providers |-> FALSE]])

(* encrypt_and_save_vault with the flags of the file left as they were read *)
encrypt_and_save_vault_stale_flags(file, plain, master_password) ==
    Some([key |-> file[1].key, plain |-> plain, configured |-> file[1].configured])

(* the file it writes: file.x_configured = plain.x.is_some(), the new ciphertext *)
encrypt_and_save_vault(file, plain, master_password) ==
    Some([key |-> file[1].key, plain |-> plain,
          configured |-> [p \in Providers |-> IsSome(plain[p])]])

Configured(file) ==
    IF IsNone(file) THEN {} ELSE {p \in Providers : IsSome(file[1].plain[p])}

---------------------------------------------------------------------------
(* What the front end and the providers can put in. *)

MinPasswordLen == 8

Pw1 == <<"p", "a", "s", "s", "w", "o", "r", "d">>
Pw2 == <<"l", "a", "o", "c", "h", "e", "n", "1">>
PwShort == <<"p", "w">>
Passwords == {Pw1, Pw2}

Credentials == {[hdr_ok |-> TRUE], [hdr_ok |-> FALSE]}

(* how many providers hold credentials at once *)
MaxConfigured == 2

(* how many records the provider's zone holds *)
MaxZoneRecords == 2

AccountZone == [id |-> ZoneId, name |-> ZoneName, record_num |-> 2]
NativeZone(p) ==
    [AccountZone EXCEPT !.name = IF p = "huawei" THEN ZoneName \o Dot ELSE ZoneName]

Www == <<"w", "w", "w">>
Api == <<"a", "p", "i">>
SrvName == <<"_", "s", "i", "p", ".", "_", "t", "c", "p">>
Ip1 == <<"1", ".", "2", ".", "3", ".", "4">>
Ip2 == <<"5", ".", "6", ".", "7", ".", "8">>
MailHost == <<"m", "a", "i", "l", ".", "e", "x", ".", "i", "o">>

Request(ty, name, content, ttl, mx, srv, caa_tag) ==
    [record_type |-> ty, name |-> name, content |-> content, ttl |-> ttl,
     mx_priority |-> mx, srv_priority |-> srv, srv_weight |-> srv,
     srv_port |-> srv, caa_flags |-> None, caa_tag |-> caa_tag]

(* a record of the zone: the request that wrote it, under its id and host *)
ZoneRecord(id, req) ==
    [f \in (DOMAIN req \ {"name"}) \cup {"id", "host"} |->
        IF f = "id" THEN id ELSE IF f = "host" THEN req.name ELSE req[f]]

RecordPool ==
    << ZoneRecord(<<"1", "1">>, Request("A", Www, Ip1, 600, None, None, None)),
       ZoneRecord(<<"1", "2">>, Request("A", Www, Ip2, 600, None, None, None)),
       ZoneRecord(<<"1", "3">>, Request("MX", At, MailHost, 600, Some(10), None, None)),
       ZoneRecord(<<"1", "4">>, Request("SRV", SrvName, MailHost, 600, None, Some(5), None)) >>

RECURSIVE Pick(_, _)
Pick(pool, keep) ==
    IF pool = <<>> THEN <<>>
    ELSE (IF Len(pool) \in keep THEN <<pool[Len(pool)]>> ELSE <<>>)
         \o Pick(SubSeq(pool, 1, Len(pool) - 1), keep)

RECURSIVE Reverse(_)
Reverse(s) == IF s = <<>> THEN <<>> ELSE Reverse(Tail(s)) \o <<Head(s)>>

(* how many records a zone holds besides those of the pool: none, or one short *)
(* of the 500 a list_records page takes                                        *)
OtherCounts == {0, 499}

(* the zones a provider can hold: the others, then the pool's records in id order *)
Zones ==
    { [others |-> others, items |-> Reverse(Pick(RecordPool, keep))] :
        others \in OtherCounts,
        keep \in {k \in SUBSET (1..Len(RecordPool)) : Cardinality(k) <= MaxZoneRecords} }

NoZone == [others |-> 0, items |-> <<>>]

(* the zones an account can hold: the zone of the model or none, after the others *)
Accounts ==
    { [others |-> 0, one |-> FALSE], [others |-> 0, one |-> TRUE],
      [others |-> 500, one |-> TRUE] }

OneZone == [others |-> 0, one |-> TRUE]

HeldZones(p, account) ==
    [others |-> account.others,
     items |-> IF account.one THEN <<NativeZone(p)>> ELSE <<>>]

ValidRequests ==
    { Request("A", Www, Ip2, 600, None, None, None),
      Request("MX", At, MailHost, 60, Some(10), None, None),
      Request("SRV", SrvName, MailHost, 86400, None, Some(5), None),
      Request("CAA", At, MailHost, 600, None, None, Some(<<"i", "s", "s", "u", "e">>)) }

InvalidRequests ==
    { Request("PTR", Www, Ip1, 600, None, None, None),
      Request("A", <<" ">>, Ip1, 600, None, None, None),
      Request("TXT", Www, <<" ", " ">>, 600, None, None, None),
      Request("A", Www, Ip1, 59, None, None, None),
      Request("A", Www, Ip1, 86401, None, None, None),
      Request("A", Www, Www, 600, None, None, None),
      Request("AAAA", Www, Ip1, 600, None, None, None),
      Request("CNAME", Www, Api, 600, None, None, None),
      Request("MX", At, MailHost, 600, None, None, None),
      Request("SRV", SrvName, MailHost, 600, None, None, None),
      Request("SRV", MailHost, MailHost, 600, None, Some(5), None),
      Request("CAA", At, MailHost, 600, None, None, Some(<<" ">>)) }

Requests == ValidRequests \cup InvalidRequests

WithStrategy(req, strategy) ==
    [f \in DOMAIN req \cup {"conflict_strategy"} |->
        IF f = "conflict_strategy" THEN strategy ELSE req[f]]

WithId(req, id) ==
    [f \in (DOMAIN req \ {"conflict_strategy"}) \cup {"id"} |->
        IF f = "id" THEN id ELSE req[f]]

RecordIds == {<<"1", "1">>, <<"x">>}

Searches == {None, Some(<<"E", "X">>), Some(<<"n", "i">>)}

---------------------------------------------------------------------------
(* commands.rs *)

(* the name of a provider's NotConfigured item *)
PlaceholderName(p) ==
      CASE p = "cloudflare" -> <<"C", "l", "o", "u", "d", "f", "l", "a", "r", "e">>
        [] p = "dnspod" -> <<"D", "N", "S", "P", "o", "d">>
        [] p = "aliyun" -> <<"U963F", "U91CC", "U4E91", "D", "N", "S">>
        [] p = "huawei" -> <<"U534E", "U4E3A", "U4E91", "D", "N", "S">>
        [] p = "baidu" -> <<"U767E", "U5EA6", "U667A", "U80FD", "U4E91", "D", "N", "S">>
        [] p = "dnscom" -> <<"D", "N", "S", ".", "C", "O", "M">>
        [] p = "rainyun" -> <<"U96E8", "U4E91", "D", "N", "S">>
        [] p = "tencentcloud" -> <<"U817E", "U8BAF", "U4E91", "D", "N", "S">>

(* the display_name handed to make_error_item *)
ErrorDisplayName(p) ==
      CASE p = "cloudflare" -> <<"C", "l", "o", "u", "d", "f", "l", "a", "r", "e">>
        [] p = "dnspod" -> <<"D", "N", "S", "P", "o", "d">>
        [] p = "aliyun" -> <<"A", "l", "i", "y", "u", "n">>
        [] p = "huawei" -> <<"U534E", "U4E3A", "U4E91", "D", "N", "S">>
        [] p = "baidu" -> <<"U767E", "U5EA6", "U667A", "U80FD", "U4E91", "D", "N", "S">>
        [] p = "dnscom" -> <<"D", "N", "S", ".", "C", "O", "M">>
        [] p = "rainyun" -> <<"R", "a", "i", "n", "y", "u", "n">>
        [] p = "tencentcloud" -> <<"U817E", "U8BAF", "U4E91", "D", "N", "S">>

(* make_error_item without the timeout arm *)
make_error_item_no_timeout(provider, display_name, e) ==
    DomainItem(provider,
               display_name \o <<" ", "(", "U9519", "U8BEF", ":", " ">> \o e.message \o <<")">>,
               <<>>,
               IF e.code = "auth_failed" THEN "AuthFailed"
               ELSE IF e.code = "unreachable" THEN "Unreachable"
               ELSE "FetchFailed",
               None)

make_error_item(provider, display_name, e) ==
    DomainItem(provider,
               display_name \o <<" ", "(", "U9519", "U8BEF", ":", " ">> \o e.message \o <<")">>,
               <<>>,
               IF e.code = "auth_failed" THEN "AuthFailed"
               ELSE IF e.code \in {"unreachable", "timeout"} THEN "Unreachable"
               ELSE "FetchFailed",
               None)

not_configured_item(p) == DomainItem(p, PlaceholderName(p), <<>>, "NotConfigured", None)

wants(provider_filter, p) == IsNone(provider_filter) \/ provider_filter = Some(p)

(* one `if wants_x { ... }` block of domains_list *)
provider_block(plain, provider_filter, p, answers, zones, cnt) ==
    IF ~wants(provider_filter, p) THEN Out(Ok(<<>>), <<>>)
    ELSE IF IsNone(plain[p]) THEN Out(Ok(<<not_configured_item(p)>>), <<>>)
    ELSE Then(client_list_domains(p, plain[p][1], answers[p],
                                  HeldZones(p, zones), cnt),
              LAMBDA o :
                 IF o.res.ok \/ IsPanic(o.res) THEN o
                 ELSE Out(Ok(<<make_error_item(p, ErrorDisplayName(p), o.res)>>),
                          o.http))

RECURSIVE provider_blocks(_, _, _, _, _, _)
provider_blocks(i, plain, provider_filter, answers, zones, cnt) ==
    IF i > Len(ProviderOrder) THEN Out(Ok(<<>>), <<>>)
    ELSE Then(provider_block(plain, provider_filter, ProviderOrder[i],
                             answers, zones, cnt),
              LAMBDA o :
                 IF ~o.res.ok THEN o
                 ELSE Then(provider_blocks(i + 1, plain, provider_filter,
                                           answers, zones, cnt),
                           LAMBDA rest :
                              IF ~rest.res.ok THEN Out(rest.res, o.http \o rest.http)
                              ELSE Out(Ok(o.res.value \o rest.res.value),
                                       o.http \o rest.http)))

search_filter(items, search) ==
    LET search_norm == ToLowercase(IF IsSome(search) THEN search[1] ELSE <<>>)
    IN  IF search_norm = <<>> THEN items
        ELSE SelectSeq(items, LAMBDA d : Contains(ToLowercase(d.name), search_norm))

domains_list_run(file, master_password, provider_filter, search, answers, zones, cnt) ==
    LET d == decrypt_vault(file, master_password)
    IN  IF ~d.ok THEN Out(d, <<>>)
        ELSE Then(provider_blocks(1, d.value, provider_filter, answers, zones, cnt),
                  LAMBDA o :
                     IF ~o.res.ok THEN o
                     ELSE Out(Ok(search_filter(o.res.value, search)), o.http))

(* a call of a client method: the method, and the record id and request it got *)
ClientCall(op, id, req) == [op |-> op, id |-> id, req |-> req]

(* `found`: the ids the conflict lookup of record_create came back with *)
Ran(out, calls) ==
    [res |-> out.res, http |-> out.http, calls |-> calls, found |-> None]

Ids(records) == [i \in 1..Len(records) |-> records[i].id]

(* the conflict lookup of record_create: the ids of the matching records *)
conflict_lookup(p, creds, req, resp, zone) ==
    IF p = "cloudflare"
    THEN CloudflareClient_find_conflict_ids(creds, req.record_type, req.name, resp, zone)
    ELSE Then(client_list_records(p, creds, resp, zone),
              LAMBDA o :
                 IF ~o.res.ok THEN o
                 ELSE Out(Ok(Ids(SelectSeq(o.res.value, LAMBDA r :
                                r.record_type = req.record_type /\ r.name = req.name))),
                          o.http))

lookup_op(p) == IF p = "cloudflare" THEN "find_conflict_ids" ELSE "list_records"

not_configured == Err("not_configured", ProviderText)

(* resolve_conflicts with Overwrite taken as "update whatever is there" *)
resolve_conflicts_upsert(p, creds, req, conflicts, write) ==
    IF conflicts # <<>> /\ req.conflict_strategy = "DoNotCreate"
        THEN Ran(Out(Err("conflict", ProviderText), <<>>), <<>>)
    ELSE IF conflicts # <<>> /\ Len(conflicts) # 1
        THEN Ran(Out(Err("conflict", ProviderText), <<>>), <<>>)
    ELSE IF conflicts # <<>> \/ req.conflict_strategy = "Overwrite"
        THEN LET update == WithId(req, IF conflicts # <<>> THEN conflicts[1] ELSE NewId)
             IN  Ran(client_update_record(p, creds, update, write),
                     <<ClientCall("update_record", update.id, Some(update))>>)
    ELSE Ran(client_create_record(p, creds, req, write),
             <<ClientCall("create_record", <<>>, Some(req))>>)

(* what record_create does once a conflict lookup has answered `conflicts` *)
resolve_conflicts(p, creds, req, conflicts, write) ==
    IF conflicts # <<>> /\ req.conflict_strategy = "DoNotCreate"
        THEN Ran(Out(Err("conflict", ProviderText), <<>>), <<>>)
    ELSE IF conflicts # <<>> /\ Len(conflicts) # 1
        THEN Ran(Out(Err("conflict", ProviderText), <<>>), <<>>)
    ELSE IF conflicts # <<>>
        THEN LET update == WithId(req, conflicts[1])
             IN  Ran(client_update_record(p, creds, update, write),
                     <<ClientCall("update_record", update.id, Some(update))>>)
    ELSE Ran(client_create_record(p, creds, req, write),
             <<ClientCall("create_record", <<>>, Some(req))>>)

(* record_create with the request validated after the conflict lookup *)
record_create_run_late_validation(file, master_password, p, req, lookup, zone, write) ==
    LET d == decrypt_vault(file, master_password)
        v == validate_record_request(req)
    IN  IF ~d.ok THEN Ran(Out(d, <<>>), <<>>)
        ELSE IF IsNone(d.value[p]) THEN Ran(Out(not_configured, <<>>), <<>>)
        ELSE LET creds == d.value[p][1]
                 looked == <<ClientCall(lookup_op(p), <<>>, None)>>
             IN  Then(conflict_lookup(p, creds, req, lookup, zone),
                      LAMBDA c :
                         IF ~c.res.ok THEN Ran(c, looked)
                         ELSE IF v # "ok" THEN Ran(Out(Err(v, ProviderText), c.http), looked)
                         ELSE Then(resolve_conflicts(p, creds, req, c.res.value, write),
                                   LAMBDA w :
                                      [res |-> w.res, http |-> c.http \o w.http,
                                       calls |-> looked \o w.calls,
                                       found |-> Some(c.res.value)]))

record_create_run(file, master_password, p, req, lookup, zone, write) ==
    LET d == decrypt_vault(file, master_password)
        v == validate_record_request(req)
    IN  IF ~d.ok THEN Ran(Out(d, <<>>), <<>>)
        ELSE IF v # "ok" THEN Ran(Out(Err(v, ProviderText), <<>>), <<>>)
        ELSE IF IsNone(d.value[p]) THEN Ran(Out(not_configured, <<>>), <<>>)
        ELSE LET creds == d.value[p][1]
                 looked == <<ClientCall(lookup_op(p), <<>>, None)>>
             IN  Then(conflict_lookup(p, creds, req, lookup, zone),
                      LAMBDA c :
                         IF ~c.res.ok THEN Ran(c, looked)
                         ELSE Then(resolve_conflicts(p, creds, req, c.res.value, write),
                                   LAMBDA w :
                                      [res |-> w.res, http |-> c.http \o w.http,
                                       calls |-> looked \o w.calls,
                                       found |-> Some(c.res.value)]))

record_update_run(file, master_password, p, req, resp) ==
    LET d == decrypt_vault(file, master_password)
    IN  IF ~d.ok THEN Ran(Out(d, <<>>), <<>>)
        ELSE IF IsNone(d.value[p]) THEN Ran(Out(not_configured, <<>>), <<>>)
        ELSE Ran(client_update_record(p, d.value[p][1], req, resp),
                 <<ClientCall("update_record", req.id, Some(req))>>)

record_delete_run(file, master_password, p, record_id, resp) ==
    LET d == decrypt_vault(file, master_password)
    IN  IF ~d.ok THEN Ran(Out(d, <<>>), <<>>)
        ELSE IF IsNone(d.value[p]) THEN Ran(Out(not_configured, <<>>), <<>>)
        ELSE Ran(client_delete_record(p, d.value[p][1], record_id, resp),
                 <<ClientCall("delete_record", record_id, None)>>)

records_list_run(file, master_password, p, resp, zone) ==
    LET d == decrypt_vault(file, master_password)
    IN  IF ~d.ok THEN Ran(Out(d, <<>>), <<>>)
        ELSE IF IsNone(d.value[p]) THEN Ran(Out(not_configured, <<>>), <<>>)
        ELSE Ran(client_list_records(p, d.value[p][1], resp, zone),
                 <<ClientCall("list_records", <<>>, None)>>)

---------------------------------------------------------------------------
(* The commands the front end invokes. *)

NoCall ==
    [cmd |-> "none", provider |-> "", args |-> <<>>, zone |-> <<>>,
     answers |-> <<>>, http |-> <<>>, calls |-> <<>>, found |-> None,
     res |-> Ok(<<>>)]

Answered(cmd, p, args, zone, answers, ran) ==
    /\ last' = [cmd |-> cmd, provider |-> p, args |-> args, zone |-> zone,
                answers |-> answers, http |-> ran.http, calls |-> ran.calls,
                found |-> ran.found, res |-> ran.res]
    /\ pc' = "returned"

Init ==
    /\ vault = None
    /\ pc = "idle"
    /\ last = NoCall

vault_initialize ==
    /\ pc = "idle"
    /\ \E master_password \in {PwShort, Pw1} :
        LET r == IF Len(master_password) < MinPasswordLen
                     THEN Err("invalid_input", ProviderText)
                 ELSE IF IsSome(vault)
                     THEN Err("already_initialized", ProviderText)
                 ELSE Ok(<<>>)
        IN  /\ vault' = IF r.ok
                        THEN initialize_vault(master_password)
                        ELSE vault
            /\ Answered("vault_initialize", "", [master_password |-> master_password],
                        <<>>, <<>>, Ran(Out(r, <<>>), <<>>))

(* cloudflare_test, dnspod_test, ... tencentcloud_test *)
provider_test ==
    /\ pc = "idle"
    /\ \E p \in Providers, creds \in Credentials, resp \in Responses :
        \E t \in {client_test(p, creds, resp, HeldZones(p, OneZone), RespOk)} :
            Answered("test", p, [creds |-> creds], <<>>, <<resp>>,
                     Ran(Out(IF IsPanic(t.res) THEN t.res ELSE Ok([ok |-> t.res.ok]),
                             t.http),
                         <<ClientCall("test", <<>>, None)>>))
    /\ UNCHANGED vault

(* X_save with the credentials stored before they are tested *)
provider_save_run_store_first(file, master_password, p, creds, resp) ==
    LET t == client_test(p, creds, resp, HeldZones(p, OneZone), RespOk)
        d == decrypt_vault(file, master_password)
    IN  IF ~d.ok THEN [res |-> d, http |-> <<>>, file |-> file]
        ELSE [res |-> IF t.res.ok THEN Ok(<<>>) ELSE t.res, http |-> t.http,
              file |-> encrypt_and_save_vault(
                           file, [d.value EXCEPT ![p] = Some(creds)], master_password)]

(* X_save: `file` is the vault file it leaves *)
provider_save_run(file, master_password, p, creds, resp) ==
    LET t == client_test(p, creds, resp, HeldZones(p, OneZone), RespOk)
        d == decrypt_vault(file, master_password)
    IN  IF ~t.res.ok THEN [res |-> t.res, http |-> t.http, file |-> file]
        ELSE IF ~d.ok THEN [res |-> d, http |-> t.http, file |-> file]
        ELSE [res |-> Ok(<<>>), http |-> t.http,
              file |-> encrypt_and_save_vault(
                           file, [d.value EXCEPT ![p] = Some(creds)], master_password)]

(* cloudflare_save, dnspod_save, ... tencentcloud_save *)
provider_save ==
    /\ pc = "idle"
    /\ \E p \in Providers, master_password \in Passwords,
          creds \in Credentials, resp \in Responses :
        \E s \in {provider_save_run(vault, master_password, p, creds, resp)} :
            /\ Cardinality(Configured(s.file)) <= MaxConfigured
            /\ vault' = s.file
            /\ Answered("save", p,
                        [creds |-> creds, master_password |-> master_password],
                        <<>>, <<resp>>,
                        Ran(Out(s.res, s.http), <<ClientCall("test", <<>>, None)>>))

(* cloudflare_clear, dnspod_clear, ... tencentcloud_clear *)
provider_clear ==
    /\ pc = "idle"
    /\ \E p \in Providers, master_password \in Passwords :
        \E d \in {decrypt_vault(vault, master_password)} :
            /\ vault' = IF d.ok
                        THEN encrypt_and_save_vault(
                                 vault, [d.value EXCEPT ![p] = None], master_password)
                        ELSE vault
            /\ Answered("clear", p, [master_password |-> master_password],
                        <<>>, <<>>,
                        Ran(Out(IF d.ok THEN Ok(<<>>) ELSE d, <<>>), <<>>))

DomainAnswers ==
    { RespOk,
      Resp("timeout", 0, FALSE, "none", FALSE),
      Resp("connect", 0, FALSE, "none", FALSE),
      Resp("ok", 401, TRUE, "auth", FALSE),
      Resp("ok", 200, TRUE, "other", FALSE),
      Resp("ok", 200, FALSE, "none", FALSE) }

CountAnswers == {RespOk, Resp("timeout", 0, FALSE, "none", FALSE)}

domains_list ==
    /\ pc = "idle"
    /\ \E master_password \in Passwords,
          provider_filter \in {None} \cup {Some(p) : p \in Providers},
          search \in Searches :
        LET asked == {p \in Configured(vault) : wants(provider_filter, p)}
            args == [master_password |-> master_password,
                     provider_filter |-> provider_filter, search |-> search]
        IN  IF ~decrypt_vault(vault, master_password).ok
            THEN \E o \in {domains_list_run(vault, master_password, provider_filter,
                                            search, <<>>, OneZone, RespOk)} :
                   Answered("domains_list", "", args, <<>>, <<>>, Ran(o, <<>>))
            ELSE \E answers \in [asked -> DomainAnswers] :
                   \E zones \in (IF \E p \in asked : answers[p].payload
                                 THEN Accounts ELSE {OneZone}),
                      cnt \in (IF "cloudflare" \in asked /\ answers["cloudflare"].payload
                               THEN CountAnswers ELSE {RespOk}) :
                     \E o \in {domains_list_run(vault, master_password, provider_filter,
                                                search, answers, zones, cnt)} :
                       Answered("domains_list", "", args,
                                [zones |-> zones, cnt |-> cnt], answers,
                                Ran(o, [i \in 1..Len(o.http) |->
                                           ClientCall(o.http[i], <<>>, None)]))
    /\ UNCHANGED vault

records_list ==
    /\ pc = "idle"
    /\ \E master_password \in Passwords, p \in Providers, resp \in Responses :
        \E zone \in (IF decrypt_vault(vault, master_password).ok
                        /\ p \in Configured(vault) /\ resp.payload
                     THEN Zones ELSE {NoZone}) :
          \E ran \in {records_list_run(vault, master_password, p, resp, zone)} :
            Answered("records_list", p, [master_password |-> master_password],
                     zone, <<resp>>, ran)
    /\ UNCHANGED vault

(* `run` is the handler as a function of what the provider answers: the     *)
(* answers a handler never asks for are not drawn.                          *)
record_create ==
    /\ pc = "idle"
    /\ \E master_password \in Passwords, p \in Providers,
          r \in Requests, strategy \in ConflictStrategy :
        LET req == WithStrategy(r, strategy)
            args == [master_password |-> master_password, req |-> req]
            answered(run) ==
              \E early \in {run[RespOk, NoZone, RespOk]} :
                IF early.http = <<>>
                THEN Answered("record_create", p, args, <<>>, <<>>, early)
                ELSE \E lookup \in Responses :
                       \E zone \in (IF lookup.payload THEN Zones ELSE {NoZone}) :
                         \E one \in {run[lookup, zone, RespOk]} :
                           IF Len(one.calls) = 1
                           THEN Answered("record_create", p, args, zone, <<lookup>>, one)
                           ELSE \E write \in Responses :
                                  Answered("record_create", p, args, zone,
                                           <<lookup, write>>, run[lookup, zone, write])
        IN  answered([lookup \in Responses, zone \in Zones \cup {NoZone},
                      write \in Responses |->
                        record_create_run(vault, master_password, p, req,
                                          lookup, zone, write)])
    /\ UNCHANGED vault

record_update ==
    /\ pc = "idle"
    /\ \E master_password \in Passwords, p \in Providers,
          r \in Requests, id \in RecordIds :
        LET req == WithId(r, id)
            args == [master_password |-> master_password, req |-> req]
            answered(run) ==
              \E early \in {run[RespOk]} :
                IF early.calls = <<>>
                THEN Answered("record_update", p, args, <<>>, <<>>, early)
                ELSE \E resp \in Responses :
                       Answered("record_update", p, args, <<>>, <<resp>>, run[resp])
        IN  answered([resp \in Responses |->
                        record_update_run(vault, master_password, p, req, resp)])
    /\ UNCHANGED vault

record_delete ==
    /\ pc = "idle"
    /\ \E master_password \in Passwords, p \in Providers, id \in RecordIds :
        LET args == [master_password |-> master_password, record_id |-> id]
            answered(run) ==
              \E early \in {run[RespOk]} :
                IF early.calls = <<>>
                THEN Answered("record_delete", p, args, <<>>, <<>>, early)
                ELSE \E resp \in Responses :
                       Answered("record_delete", p, args, <<>>, <<resp>>, run[resp])
        IN  answered([resp \in Responses |->
                        record_delete_run(vault, master_password, p, id, resp)])
    /\ UNCHANGED vault

(* the invoke handler hands the answer to the front end *)
Return ==
    /\ pc = "returned"
    /\ pc' = "idle"
    /\ last' = NoCall
    /\ UNCHANGED vault

Next ==
    \/ vault_initialize
    \/ provider_test
    \/ provider_save
    \/ provider_clear
    \/ domains_list
    \/ records_list
    \/ record_create
    \/ record_update
    \/ record_delete
    \/ Return

Spec == Init /\ [][Next]_vars

---------------------------------------------------------------------------
(* Properties of record_create: the Conflict & Write Protocol. *)

CallsOf(op) == SelectSeq(last.calls, LAMBDA c : c.op = op)
SentOf(op) == SelectSeq(last.http, LAMBDA h : h = op)

CreateAnswered == pc = "returned" /\ last.cmd = "record_create"

Unlocked(master_password) == decrypt_vault(vault, master_password).ok

(* the records of the provider's zone with the request's record_type and name *)
ZoneMatches ==
    SelectSeq(last.zone.items, LAMBDA z :
        z.record_type = last.args.req.record_type /\ z.host = last.args.req.name)

NoWrite ==
    /\ CallsOf("create_record") = <<>> /\ SentOf("create_record") = <<>>
    /\ CallsOf("update_record") = <<>> /\ SentOf("update_record") = <<>>
    /\ CallsOf("delete_record") = <<>> /\ SentOf("delete_record") = <<>>

(* C1: for every provider and both strategies, a record_create whose conflict *)
(* lookup finds no record with the request's (record_type, name) calls the    *)
(* provider's create_record exactly once, sending one create request, and     *)
(* never calls update_record.                                                 *)
C1_NoConflictCreatesOnce ==
    (CreateAnswered /\ last.found = Some(<<>>))
        => /\ Len(CallsOf("create_record")) = 1
           /\ Len(SentOf("create_record")) = 1
           /\ CallsOf("create_record")[1].req = Some(last.args.req)
           /\ CallsOf("update_record") = <<>>
           /\ SentOf("update_record") = <<>>

C1_Witness ==
    /\ CreateAnswered
    /\ last.provider = "huawei"
    /\ last.args.req.conflict_strategy = "Overwrite"
    /\ last.found = Some(<<>>)
    /\ Len(last.zone.items) = MaxZoneRecords
    /\ last.res.ok

UpdateFields ==
    {"record_type", "name", "content", "ttl", "mx_priority", "srv_priority",
     "srv_weight", "srv_port", "caa_flags", "caa_tag"}

(* C2: for every provider, when the lookup answers and exactly one record of  *)
(* the zone has the request's (record_type, name) and the strategy is         *)
(* Overwrite, record_create calls update_record exactly once, with that       *)
(* record's id and the request's ten field values, and calls neither          *)
(* create_record nor delete_record.                                           *)
C2_SingleMatchOverwriteUpdates ==
    (CreateAnswered /\ IsSome(last.found) /\ Len(ZoneMatches) = 1
        /\ last.args.req.conflict_strategy = "Overwrite")
        => /\ Len(CallsOf("update_record")) = 1
           /\ Len(SentOf("update_record")) <= 1
           /\ LET update == CallsOf("update_record")[1]
              IN  /\ update.id = ZoneMatches[1].id
                  /\ update.req[1].id = ZoneMatches[1].id
                  /\ \A f \in UpdateFields : update.req[1][f] = last.args.req[f]
           /\ CallsOf("create_record") = <<>> /\ SentOf("create_record") = <<>>
           /\ CallsOf("delete_record") = <<>> /\ SentOf("delete_record") = <<>>

C2_Witness ==
    /\ CreateAnswered
    /\ last.provider = "cloudflare"
    /\ last.args.req.conflict_strategy = "Overwrite"
    /\ last.args.req.record_type = "MX"
    /\ IsSome(last.found) /\ Len(ZoneMatches) = 1
    /\ Len(last.zone.items) = MaxZoneRecords
    /\ SentOf("update_record") # <<>>
    /\ last.res.ok

(* C3: for every provider, when the lookup answers and two or more records of *)
(* the zone have the request's (record_type, name) and the strategy is        *)
(* Overwrite, record_create returns the error `conflict` and calls none of    *)
(* create_record, update_record, delete_record.                               *)
C3_SeveralMatchesOverwriteRefused ==
    (CreateAnswered /\ IsSome(last.found) /\ Len(ZoneMatches) >= 2
        /\ last.args.req.conflict_strategy = "Overwrite")
        => /\ ~last.res.ok /\ last.res.code = "conflict"
           /\ NoWrite

C3_Witness ==
    /\ CreateAnswered
    /\ last.provider = "dnspod"
    /\ last.args.req.conflict_strategy = "Overwrite"
    /\ IsSome(last.found) /\ Len(ZoneMatches) >= 2
    /\ last.res.code = "conflict"

(* C4: for every provider, when the lookup answers and at least one record of *)
(* the zone has the request's (record_type, name) and the strategy is         *)
(* DoNotCreate, record_create returns the error `conflict` and calls none of  *)
(* create_record, update_record, delete_record.                               *)
C4_MatchDoNotCreateRefused ==
    (CreateAnswered /\ IsSome(last.found) /\ Len(ZoneMatches) >= 1
        /\ last.args.req.conflict_strategy = "DoNotCreate")
        => /\ ~last.res.ok /\ last.res.code = "conflict"
           /\ NoWrite

C4_Witness ==
    /\ CreateAnswered
    /\ last.provider = "aliyun"
    /\ last.args.req.conflict_strategy = "DoNotCreate"
    /\ IsSome(last.found) /\ Len(ZoneMatches) = 1
    /\ last.res.code = "conflict"

ValidationCodes ==
    {"invalid_type", "invalid_name", "invalid_content", "invalid_ttl",
     "missing_field", "invalid_caa_tag"}

(* the request as the front end sent it, without the strategy *)
Bare(req) == [f \in UpdateFields |-> req[f]]

(* C5: a record_create whose request is malformed sends no HTTP request and   *)
(* calls no client method, not even the conflict lookup, and fails; with the  *)
(* vault unlocked the failure is a validation error.                          *)
C5_InvalidCreateNeverReachesProvider ==
    (CreateAnswered /\ Bare(last.args.req) \in InvalidRequests)
        => /\ last.http = <<>>
           /\ last.calls = <<>>
           /\ ~last.res.ok
           /\ Unlocked(last.args.master_password)
                  => last.res.code \in ValidationCodes

C5_Witness ==
    /\ CreateAnswered
    /\ last.provider \in Configured(vault)
    /\ Unlocked(last.args.master_password)
    /\ last.args.req.record_type = "SRV"
    /\ IsSome(last.args.req.srv_port)
    /\ last.res.code = "invalid_name"
    /\ last.http = <<>>

(* C6: a record_update whose request is malformed is rejected with a         *)
(* validation error before any network I/O: with the vault unlocked and the   *)
(* provider configured it fails with a validation code, and no update request *)
(* for it is sent to the provider.                                            *)
C6_InvalidUpdateNeverReachesProvider ==
    (pc = "returned" /\ last.cmd = "record_update"
        /\ Bare(last.args.req) \in InvalidRequests
        /\ Unlocked(last.args.master_password)
        /\ last.provider \in Configured(vault))
        => /\ last.http = <<>>
           /\ ~last.res.ok
           /\ last.res.code \in ValidationCodes

---------------------------------------------------------------------------
(* Properties of domains_list. *)

DomainsAnswered ==
    pc = "returned" /\ last.cmd = "domains_list" /\ Unlocked(last.args.master_password)

Wanted == {p \in Providers : wants(last.args.provider_filter, p)}

Asked == Wanted \cap Configured(vault)

ZonesOf(p) == HeldZones(p, last.zone.zones)

(* what the provider's client made of the answer it got *)
ListOf(p) ==
    client_list_domains(p, vault[1].plain[p][1], last.answers[p], ZonesOf(p),
                        last.zone.cnt)

ItemsIn(items, p) == SelectSeq(items, LAMBDA d : d.provider = p)

IsPlaceholder(d) == d.provider_id = <<>> /\ d.status # "Ok"

(* the list domains_list would return had provider p answered normally *)
HadNotFailed(p) ==
    domains_list_run(vault, last.args.master_password, last.args.provider_filter,
                     last.args.search, [last.answers EXCEPT ![p] = RespOk],
                     last.zone.zones, last.zone.cnt).res.value

(* C7: in domains_list, a provider whose list_domains call fails contributes  *)
(* exactly one placeholder item (empty provider_id, status not Ok), the       *)
(* command still returns Ok, and the items of every other requested provider  *)
(* are what they would be had the failing provider not failed.                *)
C7_FailingProviderOnePlaceholder ==
    DomainsAnswered =>
        \A p \in Asked :
            ~ListOf(p).res.ok
                => /\ last.res.ok
                   /\ Len(ItemsIn(last.res.value, p)) = 1
                   /\ IsPlaceholder(ItemsIn(last.res.value, p)[1])
                   /\ \A q \in Wanted \ {p} :
                          ItemsIn(last.res.value, q) = ItemsIn(HadNotFailed(p), q)

(* the provider refused the call or the call did not come through *)
Rejected(resp) ==
    \/ resp.transport # "ok"
    \/ ~IsSuccess(resp.status)
    \/ ~resp.json
    \/ resp.envelope \in {"auth", "other"}

NoZoneList(p) == p \notin Configured(vault) \/ Rejected(last.answers[p])

PlaceholderStatus == {"AuthFailed", "Unreachable", "FetchFailed", "NotConfigured"}

(* C8: for every requested provider for which no zone list was obtained (it   *)
(* rejected or failed the call, or has no stored credentials), the list       *)
(* domains_list returns holds a placeholder item of that provider with status *)
(* AuthFailed, Unreachable, FetchFailed or NotConfigured, whatever the search *)
(* argument.                                                                  *)
C8_MissingZoneListHasPlaceholder ==
    DomainsAnswered =>
        \A p \in Wanted :
            NoZoneList(p)
                => \E i \in 1..Len(last.res.value) :
                       /\ last.res.value[i].provider = p
                       /\ last.res.value[i].provider_id = <<>>
                       /\ last.res.value[i].status \in PlaceholderStatus

---------------------------------------------------------------------------
(* Properties of the provider clients. *)

(* an HTTP 401/403 answer carrying a JSON error object *)
RejectsCredentials(resp) ==
    /\ resp.transport = "ok"
    /\ resp.status \in {401, 403}
    /\ resp.json
    /\ resp.envelope = "auth"

Succeeded(resp) ==
    resp.transport = "ok" /\ IsSuccess(resp.status) /\ resp.json
        /\ resp.envelope \in {"ok", "none"}

(* C9: for every provider, test() returns Ok only if the provider answered    *)
(* the call with a success response; when the provider rejects the            *)
(* credentials with a 401/403 JSON error object, X_test reports ok = false    *)
(* and X_save fails, storing nothing.                                         *)
C9_TestOkOnlyOnSuccess ==
    (pc = "returned" /\ last.cmd \in {"test", "save"} /\ last.http # <<>>)
        => /\ (last.cmd = "test" /\ last.res.value.ok) => Succeeded(last.answers[1])
           /\ (last.cmd = "save" /\ last.res.ok) => Succeeded(last.answers[1])
           /\ (last.cmd = "test" /\ RejectsCredentials(last.answers[1]))
                  => ~last.res.value.ok
           /\ (last.cmd = "save" /\ RejectsCredentials(last.answers[1]))
                  => ~last.res.ok

(* C10: for every provider and client operation, an answer with HTTP status   *)
(* 401 or 403 makes the operation return an error with code auth_failed.      *)
(* The operation is the last one the command ran: list_records, create_record *)
(* or update_record for record_create, list_domains for X_save.               *)
C10_Status401Or403IsAuthFailed ==
    (pc = "returned"
        /\ last.cmd \in {"records_list", "record_create", "record_update",
                         "record_delete", "save"}
        /\ last.http # <<>> /\ Len(last.http) = Len(last.answers)
        /\ last.answers[Len(last.answers)].transport = "ok"
        /\ last.answers[Len(last.answers)].status \in {401, 403})
        => ~last.res.ok /\ last.res.code = "auth_failed"

---------------------------------------------------------------------------
(* Properties of the error taxonomy. *)

(* a command whose last client operation had its request sent and answered *)
ClientAnswered ==
    /\ pc = "returned"
    /\ last.cmd \in {"records_list", "record_create", "record_update",
                     "record_delete", "save"}
    /\ last.http # <<>> /\ Len(last.http) = Len(last.answers)

LastAnswer == last.answers[Len(last.answers)]

ClosedCodes ==
    {"auth_failed", "unreachable", "timeout", "fetch_failed", "create_failed",
     "update_failed", "delete_failed", "not_configured", "invalid_input",
     "invalid_type", "invalid_content", "invalid_ttl", "missing_field",
     "invalid_name", "invalid_caa_tag", "conflict", "json_decode_failed",
     "serialize_error", "http_error"}

(* C12: every error a client operation returns carries a code of the closed   *)
(* set of the error taxonomy.                                                 *)
C12_ErrorCodesClosed ==
    (pc = "returned" /\ last.calls # <<>> /\ last.cmd # "domains_list"
        /\ ~last.res.ok /\ ~IsPanic(last.res))
        => last.res.code \in ClosedCodes

(* a 2xx answer whose JSON body carries the provider's error object with a *)
(* code that is not auth-related                                           *)
OtherEnvelope(resp) ==
    /\ resp.transport = "ok"
    /\ IsSuccess(resp.status)
    /\ resp.json
    /\ resp.envelope = "other"

OperationCodes == {"fetch_failed", "create_failed", "update_failed", "delete_failed"}

(* C13: for every provider, an error envelope in a 2xx answer whose provider  *)
(* code is not auth-related is reported as a generic operation failure, never *)
(* as auth_failed.                                                            *)
C13_EnvelopeErrorNotAuth ==
    (ClientAnswered /\ OtherEnvelope(LastAnswer))
        => last.res.ok \/ last.res.code \in OperationCodes

(* a 2xx answer whose body is not JSON *)
NotJson(resp) == resp.transport = "ok" /\ IsSuccess(resp.status) /\ ~resp.json

(* C14: for every provider, list_records and list_domains answered with a     *)
(* body that is not valid JSON return an error with code json_decode_failed,  *)
(* never a successful (empty) list.                                           *)
C14_DecodeFailureReported ==
    /\ (ClientAnswered /\ last.cmd = "records_list" /\ NotJson(LastAnswer))
          => ~last.res.ok /\ last.res.code = "json_decode_failed"
    /\ DomainsAnswered =>
          \A p \in Asked :
              (ListOf(p).http # <<>> /\ NotJson(last.answers[p]))
                  => ~ListOf(p).res.ok /\ ListOf(p).res.code = "json_decode_failed"

---------------------------------------------------------------------------
(* Properties of the record and zone lists. *)

HeldCount(held) == held.others + Len(held.items)

(* C15: list_records returns every record of the zone: the result of a      *)
(* records_list that succeeds has as many entries as the zone holds, also   *)
(* beyond the 500 of one request, and the conflict lookup of record_create   *)
(* finds every record of the zone with the request's (record_type, name).    *)
C15_ListRecordsReturnsEveryRecord ==
    /\ (pc = "returned" /\ last.cmd = "records_list" /\ last.res.ok)
           => Count(last.res.value) = HeldCount(last.zone)
    /\ (CreateAnswered /\ IsSome(last.found))
           => Len(last.found[1]) = Len(ZoneMatches)

(* C16: list_domains returns every zone of the account: with no search, the *)
(* items domains_list returns for a provider whose list request is answered *)
(* normally are as many as the account holds, also beyond the 200 or 500 of *)
(* one request.                                                             *)
C16_ListDomainsReturnsEveryZone ==
    (DomainsAnswered /\ last.args.search = None)
        => \A p \in Asked :
              last.answers[p] = RespOk
                  => Count(ItemsIn(last.res.value, p)) = HeldCount(ZonesOf(p))

---------------------------------------------------------------------------
(* Properties of the records handed back and of the bodies sent. *)

(* the DnsRecords the command that answered hands to the front end *)
Produced ==
    IF pc = "returned" /\ last.res.ok /\ last.cmd = "records_list"
    THEN SelectSeq(last.res.value, LAMBDA r : "times" \notin DOMAIN r)
    ELSE IF pc = "returned" /\ last.res.ok
            /\ last.cmd \in {"record_create", "record_update"}
    THEN <<last.res.value>>
    ELSE <<>>

OnlyFieldsOfType(r) ==
    /\ IsSome(r.mx_priority) => r.record_type = "MX"
    /\ (IsSome(r.srv_priority) \/ IsSome(r.srv_weight) \/ IsSome(r.srv_port))
           => r.record_type = "SRV"
    /\ (IsSome(r.caa_flags) \/ IsSome(r.caa_tag)) => r.record_type = "CAA"

(* C17: every DnsRecord of list_records, create_record and update_record has *)
(* mx_priority only on an MX record, the SRV fields only on an SRV record,   *)
(* the CAA fields only on a CAA record; and the record of an SRV request     *)
(* written with priority, weight and port has them.                          *)
C17_FieldsOfTheRecordType ==
    /\ \A i \in DOMAIN Produced : OnlyFieldsOfType(Produced[i])
    /\ (pc = "returned" /\ last.res.ok
        /\ last.cmd \in {"record_create", "record_update"}
        /\ last.args.req.record_type = "SRV"
        /\ IsSome(last.args.req.srv_priority) /\ IsSome(last.args.req.srv_weight)
        /\ IsSome(last.args.req.srv_port))
           => /\ last.res.value.srv_priority = last.args.req.srv_priority
              /\ last.res.value.srv_weight = last.args.req.srv_weight
              /\ last.res.value.srv_port = last.args.req.srv_port

Tokens(body) == SplitWhitespace(UnwrapOr(body.value, <<>>))

Conveys(body, req) ==
    /\ (req.record_type = "MX" /\ IsSome(req.mx_priority))
           => body.priority = req.mx_priority
    /\ (req.record_type = "SRV" /\ IsSome(req.srv_priority))
           => \/ IsSome(body.data) /\ body.data[1].priority = req.srv_priority
              \/ Len(Tokens(body)) >= 4
                   /\ Tokens(body)[1] = ToString(req.srv_priority[1])
    /\ (req.record_type = "SRV" /\ IsSome(req.srv_weight))
           => \/ IsSome(body.data) /\ body.data[1].weight = req.srv_weight
              \/ Len(Tokens(body)) >= 4
                   /\ Tokens(body)[2] = ToString(req.srv_weight[1])
    /\ (req.record_type = "SRV" /\ IsSome(req.srv_port))
           => \/ IsSome(body.data) /\ body.data[1].port = req.srv_port
              \/ Len(Tokens(body)) >= 4
                   /\ Tokens(body)[3] = ToString(req.srv_port[1])
    /\ (req.record_type = "CAA" /\ IsSome(req.caa_flags))
           => \/ IsSome(body.data) /\ body.data[1].flags = req.caa_flags
              \/ Len(Tokens(body)) >= 3
                   /\ Tokens(body)[1] = ToString(req.caa_flags[1])
    /\ (req.record_type = "CAA" /\ IsSome(req.caa_tag))
           => \/ IsSome(body.data) /\ body.data[1].tag = req.caa_tag
              \/ Len(Tokens(body)) >= 3 /\ Tokens(body)[2] = req.caa_tag[1]

(* C20: the body of every create_record and update_record request that is   *)
(* sent for a request validate_record_request accepts conveys the request's *)
(* type-specific fields: the MX priority as the numeric priority field, the *)
(* SRV priority, weight and port and the CAA flags and tag as structured    *)
(* fields or as tokens of the value.                                        *)
C20_BodyConveysTypeFields ==
    pc = "returned" =>
        \A i \in DOMAIN last.calls :
            (last.calls[i].op \in {"create_record", "update_record"}
             /\ SentOf(last.calls[i].op) # <<>>
             /\ validate_record_request(last.calls[i].req[1]) = "ok")
                => Conveys(payload(last.provider, last.calls[i].req[1]),
                           last.calls[i].req[1])

---------------------------------------------------------------------------
(* The Value Codec on its own: a request validate_record_request accepts is *)
(* encoded by baidu_value and the text decoded by parse_baidu_record_value. *)

SrvNumbers == {0, 10, 5060}
CaaFlags == {None, Some(0), Some(128)}
CaaTags == {None, Some(Issue), Some(<<"i", "o", "d", "e", "f">>)}
CodecContents == {MailHost, Space \o MailHost}

CodecRequests ==
    { r \in { [Request("SRV", SrvName, content, 600, None, None, None)
                 EXCEPT !.srv_priority = Some(n[1]), !.srv_weight = Some(n[2]),
                        !.srv_port = Some(n[3])] :
                 content \in CodecContents,
                 n \in SrvNumbers \X SrvNumbers \X SrvNumbers }
            \cup
            { [Request("CAA", At, content, 600, None, None, tag)
                 EXCEPT !.caa_flags = flags] :
                 content \in CodecContents, flags \in CaaFlags, tag \in CaaTags } :
        validate_record_request(r) = "ok" }

CodecInit ==
    /\ vault = None
    /\ pc = "request"
    /\ last \in { [req |-> r, value |-> None, parsed |-> None] : r \in CodecRequests }

codec_encode ==
    /\ pc = "request"
    /\ pc' = "encoded"
    /\ last' = [last EXCEPT !.value = Some(baidu_value(last.req))]
    /\ UNCHANGED vault

codec_decode ==
    /\ pc = "encoded"
    /\ pc' = "decoded"
    /\ last' = [last EXCEPT !.parsed =
                   Some(parse_baidu_record_value(last.req.record_type, last.value[1]))]
    /\ UNCHANGED vault

CodecNext == codec_encode \/ codec_decode

CodecSpec == CodecInit /\ [][CodecNext]_vars

(* C18: for every SRV or CAA request that validate_record_request accepts,  *)
(* decoding the text the encoder produces gives back the request's content, *)
(* srv_priority, srv_weight, srv_port, caa_flags and caa_tag.               *)
C18_CodecRoundTrip ==
    pc = "decoded" =>
        /\ last.parsed[1].content = last.req.content
        /\ last.parsed[1].srv_priority = last.req.srv_priority
        /\ last.parsed[1].srv_weight = last.req.srv_weight
        /\ last.parsed[1].srv_port = last.req.srv_port
        /\ last.parsed[1].caa_flags = last.req.caa_flags
        /\ last.parsed[1].caa_tag = last.req.caa_tag

---------------------------------------------------------------------------
(* The Name Normalizer on its own: a host is mapped to the provider's      *)
(* absolute name and that name back to a host.                             *)

(* how many labels a host has *)
MaxLabels == 2

Labels == {<<"a">>, <<"e", "x">>, <<"i", "o">>, <<"x", "i", "o">>}

RECURSIVE LabelSequences(_)
LabelSequences(n) ==
    IF n = 1 THEN Labels
    ELSE LabelSequences(n - 1)
         \cup {h \o Dot \o l : h \in LabelSequences(n - 1), l \in Labels}

NameHosts == {At} \cup LabelSequences(MaxLabels)

(* zone names, as list_domains hands them out and with the trailing dot *)
NameZones ==
    {ZoneName, <<"i", "o">>, <<"a", ".", "i", "o">>, ZoneName \o Dot, <<"i", "o", ".">>}

(* "@", or a label sequence that does not end in the labels of the zone *)
Canonical(host, zone_name) ==
    LET z == TrimEndMatches(zone_name, Dot)
    IN  host = At \/ (host # z /\ ~EndsWith(host, Dot \o z))

NamesInit ==
    /\ vault = None
    /\ pc = "host"
    /\ last \in { [provider |-> p, zone |-> z, host |-> h, full |-> None, back |-> None] :
                    p \in {"cloudflare", "huawei"}, z \in NameZones, h \in NameHosts }

name_to_provider ==
    /\ pc = "host"
    /\ pc' = "absolute"
    /\ last' = [last EXCEPT !.full =
                   Some(IF last.provider = "cloudflare"
                        THEN normalize_full_name(last.zone, last.host)
                        ELSE huawei_full_name(last.zone, last.host))]
    /\ UNCHANGED vault

name_from_provider ==
    /\ pc = "absolute"
    /\ pc' = "relative"
    /\ last' = [last EXCEPT !.back =
                   Some(IF last.provider = "cloudflare"
                        THEN cf_host(last.full[1], last.zone)
                        ELSE huawei_rr(last.full[1], last.zone))]
    /\ UNCHANGED vault

NamesNext == name_to_provider \/ name_from_provider

NamesSpec == NamesInit /\ [][NamesNext]_vars

(* C19: for every zone and every host that is "@" or a label sequence not  *)
(* ending in the zone, the host made of the provider's absolute name of    *)
(* that host is the host again, for Cloudflare and for Huawei.             *)
C19_NameRoundTrip ==
    (pc = "relative" /\ Canonical(last.host, last.zone)) => last.back = Some(last.host)

C19_Witness ==
    /\ pc = "relative"
    /\ last.provider = "huawei"
    /\ last.host = <<"x", "i", "o">>
    /\ last.zone = <<"i", "o">>
    /\ last.full = Some(<<"x", "i", "o", ".">>)
    /\ last.back = Some(last.host)

---------------------------------------------------------------------------
(* Properties of what the clients send. *)

(* the commands that run client operations one after the other *)
SingleProvider ==
    {"test", "save", "records_list", "record_create", "record_update", "record_delete"}

(* no client method sends a second request: a command has sent at most as   *)
(* many requests as it called client methods                                *)
NoRequestTwice ==
    (pc = "returned" /\ last.cmd \in SingleProvider) => Len(last.http) <= Len(last.calls)

(* The answer is a failure: a transport error, a status that is not 2xx, or *)
(* an error envelope (the answers of Huawei and Baidu have none).           *)
Failed(p, resp) ==
    \/ resp.transport # "ok"
    \/ ~IsSuccess(resp.status)
    \/ p \notin {"huawei", "baidu"} /\ resp.envelope \in {"auth", "other"}

(* C21: no client operation retries.  Every client method call sends at     *)
(* most one request; when the answer to a request is a failure (transport   *)
(* error, non-2xx status, error envelope), no request follows it and the    *)
(* command that ran the operation answers with the error.  In domains_list  *)
(* the same holds of the list_domains of every provider asked.              *)
C21_NoRetryErrorReturned ==
    /\ NoRequestTwice
    /\ (pc = "returned" /\ last.cmd \in SingleProvider) =>
          \A i \in 1..Len(last.http) :
              Failed(last.provider, last.answers[i])
                  => /\ i = Len(last.http)
                     /\ IF last.cmd = "test" THEN ~last.res.value.ok ELSE ~last.res.ok
    /\ DomainsAnswered =>
          \A p \in Asked :
              (ListOf(p).http # <<>> /\ Failed(p, last.answers[p]))
                  => ListOf(p).http = <<"list_domains">> /\ ~ListOf(p).res.ok

---------------------------------------------------------------------------
(* record_create on its own, over the TTLs: the vault is unlocked and holds *)
(* no credentials, so a request that passes validation ends not_configured. *)

Ttls == {0, 30, 59, 60, 61, 600, 86399, 86400, 86401, 2147483647}

TtlRequests ==
    { Request(ty, name, content, ttl, Some(10), Some(5), None) :
        ty \in valid_types \cup {"PTR"},
        name \in {Www, SrvName, Space},
        content \in {Ip1, MailHost, Space \o Space},
        ttl \in Ttls }

TtlInit ==
    /\ vault = initialize_vault(Pw1)
    /\ pc = "request"
    /\ last \in { [req |-> WithStrategy(r, "DoNotCreate"), res |-> None] : r \in TtlRequests }

ttl_record_create ==
    /\ pc = "request"
    /\ pc' = "answered"
    /\ last' = [last EXCEPT !.res =
                   Some(record_create_run(vault, Pw1, "cloudflare", last.req,
                                          RespOk, NoZone, RespOk).res)]
    /\ UNCHANGED vault

TtlNext == ttl_record_create

TtlSpec == TtlInit /\ [][TtlNext]_vars

(* C22: with a valid type, a non-blank name and a non-blank content,        *)
(* record_create answers invalid_ttl exactly when the ttl is below 60 or    *)
(* above 86400: 30, 59 and 86401 are refused, 60 and 86400 pass the check.  *)
C22_TtlBounds ==
    (pc = "answered"
        /\ last.req.record_type \in valid_types
        /\ Trim(last.req.name) # <<>>
        /\ Trim(last.req.content) # <<>>)
        => ((~last.res[1].ok /\ last.res[1].code = "invalid_ttl")
               <=> ~(60 <= last.req.ttl /\ last.req.ttl <= 86400))

C22_Witness ==
    /\ pc = "answered"
    /\ last.req.record_type = "MX"
    /\ last.req.ttl = 60
    /\ ~last.res[1].ok /\ last.res[1].code = "not_configured"

---------------------------------------------------------------------------
(* Properties of the placeholder items of domains_list. *)

StatusOfCode(code) ==
    IF code = "auth_failed" THEN "AuthFailed"
    ELSE IF code \in {"unreachable", "timeout"} THEN "Unreachable"
    ELSE "FetchFailed"

Placeholders ==
    SelectSeq(last.res.value, LAMBDA d : "times" \notin DOMAIN d /\ IsPlaceholder(d))

(* C23: in the answer of domains_list, the placeholder of a provider whose  *)
(* list_domains failed has the status of the error's code: AuthFailed for   *)
(* auth_failed, Unreachable for unreachable and timeout, FetchFailed for    *)
(* every other code.  The placeholder of a provider without credentials has *)
(* status NotConfigured (it is there whenever no search is given), and no   *)
(* request is sent for such a provider.                                     *)
C23_PlaceholderStatusOfCode ==
    (DomainsAnswered /\ last.res.ok) =>
        /\ \A i \in 1..Len(Placeholders) :
              LET d == Placeholders[i]
              IN  IF d.provider \in Configured(vault)
                  THEN /\ ~ListOf(d.provider).res.ok
                       /\ d.status = StatusOfCode(ListOf(d.provider).res.code)
                       /\ d.status = "AuthFailed"
                              <=> ListOf(d.provider).res.code = "auth_failed"
                       /\ d.status = "Unreachable"
                              <=> ListOf(d.provider).res.code \in {"unreachable", "timeout"}
                  ELSE d.status = "NotConfigured"
        /\ \A p \in Wanted \ Configured(vault) :
              IsNone(last.args.search)
                  => /\ Len(ItemsIn(last.res.value, p)) = 1
                     /\ ItemsIn(last.res.value, p)[1].status = "NotConfigured"
        /\ Len(SelectSeq(last.http, LAMBDA h : h = "list_domains"))
              = Cardinality({p \in Asked : ListOf(p).http # <<>>})

C23_Witness ==
    /\ DomainsAnswered /\ last.res.ok
    /\ \E i \in 1..Len(Placeholders) : Placeholders[i].status = "AuthFailed"
    /\ \E i \in 1..Len(Placeholders) : Placeholders[i].status = "Unreachable"
                                          /\ ListOf(Placeholders[i].provider).res.code = "timeout"
    /\ \E i \in 1..Len(Placeholders) : Placeholders[i].status = "NotConfigured"


---------------------------------------------------------------------------
(* The conflict lookup of record_create on its own, over the spellings of   *)
(* one host: every provider holds credentials, and the zone holds records   *)
(* of the pool.                                                             *)

WwwQualified == Www \o Dot \o ZoneName

(* the relative label, the same host already qualified, the apex both ways *)
Spellings == {Www, WwwQualified, Api, At, ZoneName}

SpelledRequests ==
    { Request("A", name, Ip2, 600, None, None, None) : name \in Spellings }
    \cup { Request("MX", name, MailHost, 600, Some(10), None, None) : name \in Spellings }

LookupZones == {z \in Zones : z.others = 0}

LookupInit ==
    /\ vault = encrypt_and_save_vault(initialize_vault(Pw1),
                                      [p \in Providers |-> Some([hdr_ok |-> TRUE])], Pw1)
    /\ pc = "request"
    /\ last \in { [provider |-> p, req |-> WithStrategy(r, s), zone |-> z, ran |-> None] :
                    p \in Providers, r \in SpelledRequests,
                    s \in ConflictStrategy, z \in LookupZones }

lookup_record_create ==
    /\ pc = "request"
    /\ pc' = "answered"
    /\ last' = [last EXCEPT !.ran =
                   Some(record_create_run(vault, Pw1, last.provider, last.req,
                                          RespOk, last.zone, RespOk))]
    /\ UNCHANGED vault

LookupNext == lookup_record_create

LookupSpec == LookupInit /\ [][LookupNext]_vars

(* the records of the zone at the host the request addresses: the name the *)
(* provider holds for the record is the name a create of the request sends *)
AtRequestedHost ==
    SelectSeq(last.zone.items, LAMBDA z :
        /\ z.record_type = last.req.record_type
        /\ payload(last.provider, Written(z)).name = payload(last.provider, last.req).name)

(* C24: when the zone holds a record of the request's type at the host the  *)
(* request addresses, record_create finds it, however the request spells    *)
(* the host: with DoNotCreate it answers conflict and sends no create.      *)
C24_LookupMatchesQualifiedHost ==
    (pc = "answered" /\ AtRequestedHost # <<>>)
        => /\ IsSome(last.ran[1].found) => last.ran[1].found[1] # <<>>
           /\ "create_record" \notin {last.ran[1].http[i] : i \in 1..Len(last.ran[1].http)}
           /\ last.req.conflict_strategy = "DoNotCreate"
                 => ~last.ran[1].res.ok /\ last.ran[1].res.code = "conflict"


---------------------------------------------------------------------------
(* Two record_create calls in flight at once.  record_create is an async    *)
(* command: the runtime polls the calls in any order, and a call gives way  *)
(* at each `.await`, so the conflict lookup of one call and its write are   *)
(* two steps with the other call's steps between them.  Nothing in          *)
(* commands.rs holds a lock across them.  `last.zone` is the provider's     *)
(* zone, which a create that was sent adds a record to.                     *)

Callers == {1, 2}

AllConfigured ==
    encrypt_and_save_vault(initialize_vault(Pw1),
                           [p \in Providers |-> Some([hdr_ok |-> TRUE])], Pw1)

RaceZones == {NoZone, [others |-> 0, items |-> <<RecordPool[1]>>]}

(* the id the provider gives the record created by caller c *)
CreatedId(c) == NewId \o ToString(c)

RaceInit ==
    /\ vault = AllConfigured
    /\ pc = [c \in Callers |-> "called"]
    /\ last \in { [provider |-> p, base |-> r, zone |-> z, held |-> z,
                   ran |-> [c \in Callers |-> None]] :
                    p \in Providers, r \in ValidRequests, z \in RaceZones }

(* up to the answer of the conflict lookup; what follows is fixed by it *)
race_lookup(c) ==
    /\ pc[c] = "called"
    /\ LET ran == record_create_run(vault, Pw1, last.provider,
                                    WithStrategy(last.base, "DoNotCreate"),
                                    RespOk, last.zone, RespOk)
       IN  /\ last' = [last EXCEPT !.ran[c] = Some(ran)]
           /\ pc' = [pc EXCEPT ![c] = IF Len(ran.http) > 1 THEN "looked" ELSE "returned"]
    /\ UNCHANGED vault

(* the create or update request goes out and is answered *)
race_write(c) ==
    /\ pc[c] = "looked"
    /\ last' = [last EXCEPT !.zone.items =
                   IF last.ran[c][1].http[2] = "create_record"
                   THEN Append(@, ZoneRecord(CreatedId(c), last.base))
                   ELSE @]
    /\ pc' = [pc EXCEPT ![c] = "returned"]
    /\ UNCHANGED vault

RaceNext ==
    \/ \E c \in Callers : race_lookup(c)
    \/ \E c \in Callers : race_write(c)

RaceSpec == RaceInit /\ [][RaceNext]_vars

Creators == {c \in Callers : pc[c] = "returned" /\ Len(last.ran[c][1].http) > 1
                              /\ last.ran[c][1].http[2] = "create_record"}

HeldAtCall ==
    SelectSeq(last.held.items, LAMBDA z :
        z.record_type = last.base.record_type /\ z.host = last.base.name)

(* C25: of two record_create calls with DoNotCreate for one provider, zone  *)
(* and (record_type, name), run together on a zone without such a record,   *)
(* at most one sends a create, and the other answers conflict.              *)
C25_OneCreateOfTwo ==
    (HeldAtCall = <<>> /\ \A c \in Callers : pc[c] = "returned")
        => /\ Cardinality(Creators) <= 1
           /\ \A c \in Callers \ Creators :
                 Creators # {} => /\ ~last.ran[c][1].res.ok
                                  /\ last.ran[c][1].res.code = "conflict"


---------------------------------------------------------------------------
(* Two save or clear commands in flight at once, for two providers and one  *)
(* master password.  X_save is an async command and runs on a thread of the *)
(* runtime; X_clear is a plain command and runs on the main thread, one at  *)
(* a time.  decrypt_vault reads the vault file and encrypt_and_save_vault   *)
(* writes it whole (read_vault_file, write_vault_file): two steps, with no  *)
(* lock between them.  `last.plain[c]` is the PlainVault caller c decrypted.*)

VaultOps ==
    { [op |-> "save", provider |-> p, creds |-> [hdr_ok |-> TRUE], resp |-> resp] :
        p \in Providers, resp \in {RespOk, Resp("timeout", 0, FALSE, "none", FALSE)} }
    \cup { [op |-> "clear", provider |-> p, creds |-> [hdr_ok |-> TRUE], resp |-> RespOk] :
        p \in Providers }

(* the vault before the two commands: empty, or holding the two providers *)
VaultsBefore(p, q) ==
    { initialize_vault(Pw1),
      encrypt_and_save_vault(initialize_vault(Pw1),
                             [x \in Providers |->
                                 IF x \in {p, q} THEN Some([hdr_ok |-> FALSE]) ELSE None],
                             Pw1) }

VaultRaceInit ==
    /\ pc = [c \in Callers |-> "called"]
    /\ \E a \in VaultOps, b \in VaultOps :
          /\ a.provider # b.provider
          /\ vault \in VaultsBefore(a.provider, b.provider)
          /\ last = [cmd |-> <<a, b>>,
                     plain |-> [c \in Callers |-> None],
                     res |-> [c \in Callers |-> None]]

(* client.test().await? of X_save *)
vault_race_test(c) ==
    /\ pc[c] = "called" /\ last.cmd[c].op = "save"
    /\ LET t == client_test(last.cmd[c].provider, last.cmd[c].creds, last.cmd[c].resp,
                            HeldZones(last.cmd[c].provider, OneZone), RespOk)
       IN  IF t.res.ok
           THEN /\ pc' = [pc EXCEPT ![c] = "tested"]
                /\ UNCHANGED last
           ELSE /\ pc' = [pc EXCEPT ![c] = "returned"]
                /\ last' = [last EXCEPT !.res[c] = Some(t.res)]
    /\ UNCHANGED vault

(* vault::decrypt_vault, and the assignment to plain.x *)
vault_race_decrypt(c) ==
    /\ \/ pc[c] = "tested"
       \/ /\ pc[c] = "called" /\ last.cmd[c].op = "clear"
          /\ \A o \in Callers \ {c} : ~(last.cmd[o].op = "clear" /\ pc[o] = "decrypted")
    /\ LET d == decrypt_vault(vault, Pw1)
       IN  IF d.ok
           THEN /\ pc' = [pc EXCEPT ![c] = "decrypted"]
                /\ last' = [last EXCEPT !.plain[c] =
                              Some([d.value EXCEPT ![last.cmd[c].provider] =
                                      IF last.cmd[c].op = "save"
                                      THEN Some(last.cmd[c].creds) ELSE None])]
           ELSE /\ pc' = [pc EXCEPT ![c] = "returned"]
                /\ last' = [last EXCEPT !.res[c] = Some(d)]
    /\ UNCHANGED vault

(* vault::encrypt_and_save_vault *)
vault_race_save(c) ==
    /\ pc[c] = "decrypted"
    /\ vault' = encrypt_and_save_vault(vault, last.plain[c][1], Pw1)
    /\ pc' = [pc EXCEPT ![c] = "returned"]
    /\ last' = [last EXCEPT !.res[c] = Some(Ok(<<>>))]

VaultRaceNext ==
    \/ \E c \in Callers : vault_race_test(c)
    \/ \E c \in Callers : vault_race_decrypt(c)
    \/ \E c \in Callers : vault_race_save(c)

VaultRaceSpec == VaultRaceInit /\ [][VaultRaceNext]_vars

(* C26: when two save or clear commands for two providers, under one master *)
(* password, ran together and both returned Ok, the vault holds what each   *)
(* of them wrote: the saved credentials of a save, nothing for a clear.     *)
C26_BothOperationsKept ==
    (\A c \in Callers : pc[c] = "returned" /\ last.res[c][1].ok)
        => \A c \in Callers :
              vault[1].plain[last.cmd[c].provider]
                 = IF last.cmd[c].op = "save" THEN Some(last.cmd[c].creds) ELSE None


---------------------------------------------------------------------------
(* Properties of the configured flags of the vault file. *)

VaultCommands == {"vault_initialize", "save", "clear"}

FlagsMatch ==
    IsSome(vault) => \A p \in Providers :
        vault[1].configured[p] <=> IsSome(vault[1].plain[p])

(* what the command that has just returned Ok left in the file *)
FlagAfterCommand ==
    (pc = "returned" /\ last.cmd \in VaultCommands /\ last.res.ok)
        => CASE last.cmd = "vault_initialize" ->
                   \A p \in Providers : ~vault[1].configured[p] /\ IsNone(vault[1].plain[p])
             [] last.cmd = "save" ->
                   /\ vault[1].configured[last.provider]
                   /\ vault[1].plain[last.provider] = Some(last.args.creds)
             [] last.cmd = "clear" ->
                   /\ ~vault[1].configured[last.provider]
                   /\ IsNone(vault[1].plain[last.provider])

(* a save or clear leaves every other provider as it was *)
OthersKept ==
    (pc = "idle" /\ pc' = "returned" /\ last'.cmd \in {"save", "clear"} /\ IsSome(vault))
        => \A q \in Providers \ {last'.provider} :
              /\ vault'[1].plain[q] = vault[1].plain[q]
              /\ vault'[1].configured[q] = vault[1].configured[q]

---------------------------------------------------------------------------
(* Properties of X_test and X_save: what they leave of the vault file. *)

TestOf(call) ==
    client_test(call.provider, call.args.creds, call.answers[1],
                HeldZones(call.provider, OneZone), RespOk)

SaveAfterTest ==
    (pc = "idle" /\ pc' = "returned" /\ last'.cmd = "save")
        => /\ ~TestOf(last').res.ok => /\ vault' = vault
                                       /\ last'.res = TestOf(last').res
           /\ vault' # vault => /\ TestOf(last').res.ok
                                /\ last'.res.ok
                                /\ vault'[1].plain[last'.provider] = Some(last'.args.creds)

TestWritesNothing ==
    (pc = "idle" /\ pc' = "returned" /\ last'.cmd = "test") => vault' = vault

(* C28: X_save writes the vault only when test() succeeded with the         *)
(* credentials; when test() fails X_save answers with that failure and the  *)
(* vault file is as it was, not even decrypted (a wrong master password is  *)
(* not reported); X_test leaves the vault as it was, whatever the outcome.  *)
C28_SaveOnlyAfterTest == [][SaveAfterTest /\ TestWritesNothing]_vars

C28_Witness ==
    /\ pc = "returned" /\ last.cmd = "save"
    /\ IsSome(vault) /\ ~Unlocked(last.args.master_password)
    /\ ~last.res.ok /\ last.res.code = "timeout"
    /\ last.http = <<"list_domains">>


---------------------------------------------------------------------------
(* Properties of the record a create_record returns. *)

CreateSent ==
    /\ CreateAnswered /\ SentOf("create_record") # <<>>
    /\ Len(last.answers) = Len(last.http)

(* C29: a record_create whose create_record returned Ok returns a record    *)
(* under the id the provider gave it in the response; when the response     *)
(* carries no record, the answer is not Ok with an id made up by the client *)
(* ("0" or the empty text).                                                 *)
C29_CreatedIdIsAssigned ==
    (CreateSent /\ last.res.ok)
        => /\ LastAnswer.payload
           /\ last.res.value.id = NewId
           /\ last.res.value.id \notin {FabricatedId, <<>>}


---------------------------------------------------------------------------
(* Properties of credentials that no header value can hold. *)

(* the providers whose client puts the credentials in a header *)
SendsHeader(p) == ~headers(p, [hdr_ok |-> FALSE]).ok

(* C30: credentials that cannot be made a header value make the client      *)
(* operation return an error value, for every provider whose client sends   *)
(* them in a header: X_test answers ok: false, X_save answers the error and  *)
(* sends nothing, domains_list gives the provider its one placeholder; no   *)
(* command ends in a panic.                                                 *)
C30_UnencodableCredentialsAreErrors ==
    /\ pc = "returned" => ~IsPanic(last.res)
    /\ (pc = "returned" /\ last.cmd \in {"test", "save"}
           /\ ~last.args.creds.hdr_ok /\ SendsHeader(last.provider))
          => /\ last.http = <<>>
             /\ IF last.cmd = "test" THEN last.res.ok /\ ~last.res.value.ok
                ELSE ~last.res.ok
    /\ (DomainsAnswered /\ last.res.ok /\ last.args.search = None)
          => \A p \in Asked :
                (SendsHeader(p) /\ ~vault[1].plain[p][1].hdr_ok)
                    => /\ Len(ItemsIn(last.res.value, p)) = 1
                       /\ IsPlaceholder(ItemsIn(last.res.value, p)[1])

=============================================================================
